---------------------------- MODULE Spec2Model ----------------------------
(***************************************************************************)
(* ISO 8601 date/time library of Pacemaker (lib/common/iso8601.c).         *)
(*                                                                         *)
(* A crm_time_t is a record [years, months, days, seconds, offset,         *)
(* duration]; a null pointer is NULL.  Loops of the C code are recursive   *)
(* operators that make the same steps.  Integers are unbounded here: the   *)
(* bounds below keep every value far from the limits of a C int.           *)
(***************************************************************************)
EXTENDS Integers, Sequences, FiniteSets, TLC

VARIABLES
    dt,        \* the crm_time_t an add_* operation mutates in place
    pre,       \* its value before the last operation
    op,        \* the last operation performed
    arg,       \* the integer argument of the last in-place operation
    steps,     \* how many in-place operations were applied
    a, b, c,   \* instants handed to crm_time_add / crm_time_compare
    dur,       \* the duration handed to crm_time_add / crm_time_subtract
    sum,       \* crm_time_add(a, dur)
    sum_b,     \* crm_time_add(b, dur)
    back,      \* crm_time_subtract(sum, dur)
    rc,        \* return values of crm_time_compare
    inp,       \* the fields the input string was written from
    date_str,  \* the string handed to crm_time_new / parse_date
    gmtoff,    \* tm_gmtoff of the host: seconds east of UTC
    res,       \* what parse_date returned
    now,       \* the host's local time, as crm_time_new(NULL) returns it
    oob        \* what a read past the end of month_days[] yields

vars == <<dt, pre, op, arg, steps, a, b, c, dur, sum, sum_b, back, rc,
          inp, date_str, gmtoff, res, now, oob>>

arith_vars == <<dt, pre, arg, steps>>
call_vars == <<a, b, c, dur, sum, sum_b, back, rc>>
parse_vars == <<inp, date_str, gmtoff, res, now>>

NULL == [null |-> TRUE]

(***************************************************************************)
(* Bounds of the model.                                                    *)
(***************************************************************************)
MinYear == 1999
MaxYear == 2001
MaxOps == 2
MaxYearSpan == 2
MaxDaySpan == 40
MaxWeekdayYear == 2800

(***************************************************************************)
(* C integer division and remainder (truncation toward zero), b > 0.       *)
(***************************************************************************)
CDiv(x, y) == IF x >= 0 THEN x \div y ELSE -((-x) \div y)
CMod(x, y) == x - y * CDiv(x, y)

(***************************************************************************)
(* Calendar primitives.                                                    *)
(***************************************************************************)
DAY_SECONDS == 86400

crm_time_leapyear(year) ==
    LET is_leap1 == (CMod(year, 4) = 0)
    IN  IF CMod(year, 100) = 0 /\ CMod(year, 400) # 0 THEN FALSE ELSE is_leap1

year_days(year) == IF crm_time_leapyear(year) THEN 366 ELSE 365

month_days == <<0, 31, 28, 31, 30, 31, 30, 31, 31, 30, 31, 30, 31, 29>>

\* month_days[i]; the array has 14 elements and a read past it is undefined
month_days_at(i) == IF i \in 0..13 THEN month_days[i + 1] ELSE oob

crm_time_days_in_month(month, year) ==
    LET m == IF month = 2 /\ crm_time_leapyear(year) THEN 13 ELSE month
    IN  month_days_at(m)

RECURSIVE get_ordinal_days_loop(_, _, _, _)
get_ordinal_days_loop(y, m, d, lpc) ==
    IF lpc < m
    THEN get_ordinal_days_loop(y, m, d + crm_time_days_in_month(lpc, y), lpc + 1)
    ELSE d

get_ordinal_days(y, m, d) == get_ordinal_days_loop(y, m, d, 1)

crm_time_january1_weekday(year) ==
    LET YY == CMod(year - 1, 100)
        C == (year - 1) - YY
        G == YY + CDiv(YY, 4)
    IN  1 + CMod((CMod(CDiv(C, 100), 4) * 5) + G, 7)

\* crm_time_weeks_in_year without the test of December 31
crm_time_weeks_in_year_jan1_only(year) ==
    IF crm_time_january1_weekday(year) = 4 THEN 53 ELSE 52

crm_time_weeks_in_year(year) ==
    IF crm_time_january1_weekday(year) = 4
    THEN 53
    ELSE IF crm_time_january1_weekday(year + 1) = 5 THEN 53 ELSE 52

(***************************************************************************)
(* crm_time_get_gregorian: <<y, m, d>> of a value.                         *)
(***************************************************************************)
RECURSIVE get_gregorian_loop(_, _, _)
get_gregorian_loop(years, months, days) ==
    IF months <= 12 /\ days > 0
    THEN LET mdays == crm_time_days_in_month(months, years)
         IN  IF mdays >= days
             THEN <<months, days>>
             ELSE get_gregorian_loop(years, months + 1, days - mdays)
    ELSE <<months, days>>

\* crm_time_get_gregorian with the month lengths of the year after
crm_time_get_gregorian_next_year(t) ==
    IF t.years # 0
    THEN LET md == get_gregorian_loop(t.years + 1, 1, t.days)
         IN  <<t.years, md[1], md[2]>>
    ELSE <<t.years, t.months, t.days>>

crm_time_get_gregorian(t) ==
    IF t.years # 0
    THEN LET md == get_gregorian_loop(t.years, 1, t.days)
         IN  <<t.years, md[1], md[2]>>
    ELSE IF t.months # 0
         THEN <<t.years, t.months, t.days>>
         ELSE <<t.years, 0, t.days>>

(***************************************************************************)
(* The validator.                                                          *)
(***************************************************************************)
crm_time_check(t) ==
    /\ t # NULL
    /\ t.days > 0
    /\ t.days <= year_days(t.years)
    /\ t.seconds >= 0
    /\ t.seconds < 24 * 60 * 60

(***************************************************************************)
(* In-place arithmetic.                                                    *)
(***************************************************************************)
RECURSIVE add_days_carry(_)
add_days_carry(t) ==
    IF t.days > year_days(t.years)
    THEN add_days_carry([t EXCEPT !.years = @ + 1,
                                  !.days = @ - year_days(t.years)])
    ELSE t

RECURSIVE add_days_borrow(_, _)
add_days_borrow(t, lower_bound) ==
    IF t.days < lower_bound
    THEN add_days_borrow([t EXCEPT !.years = @ - 1,
                                   !.days = @ + year_days(t.years - 1)],
                         lower_bound)
    ELSE t

\* crm_time_add_days with every year borrowed counted as 365 days
crm_time_add_days_borrow_365(t, extra) ==
    LET moved == add_days_carry([t EXCEPT !.days = @ + extra])
    IN  IF moved.days < 1
        THEN add_days_borrow([moved EXCEPT !.years = @ - 1, !.days = @ + 365], 1)
        ELSE moved

crm_time_add_days_lb0(t, extra) ==
    add_days_borrow(add_days_carry([t EXCEPT !.days = @ + extra]), 0)

crm_time_add_days(t, extra) ==
    add_days_borrow(add_days_carry([t EXCEPT !.days = @ + extra]),
                    IF t.duration THEN 0 ELSE 1)

\* the two while loops of crm_time_add_seconds: <<seconds, days>>
RECURSIVE add_seconds_carry(_, _)
add_seconds_carry(seconds, days) ==
    IF seconds >= DAY_SECONDS
    THEN add_seconds_carry(seconds - DAY_SECONDS, days + 1)
    ELSE IF seconds < 0
         THEN add_seconds_carry(seconds + DAY_SECONDS, days - 1)
         ELSE <<seconds, days>>

crm_time_add_seconds_drop_carry(t, extra) ==
    LET sd == add_seconds_carry(t.seconds + extra, 0)
    IN  [t EXCEPT !.seconds = sd[1]]

crm_time_add_seconds(t, extra) ==
    LET sd == add_seconds_carry(t.seconds + extra, 0)
    IN  crm_time_add_days([t EXCEPT !.seconds = sd[1]], sd[2])

\* the stepping loops of crm_time_add_months: <<y, m>>
RECURSIVE add_months_step(_, _, _)
add_months_step(y, m, lpc) ==
    IF lpc > 0
    THEN IF m + 1 = 13
         THEN add_months_step(y + 1, 1, lpc - 1)
         ELSE add_months_step(y, m + 1, lpc - 1)
    ELSE <<y, m>>

RECURSIVE sub_months_step(_, _, _)
sub_months_step(y, m, lpc) ==
    IF lpc > 0
    THEN IF m - 1 = 0
         THEN sub_months_step(y - 1, 12, lpc - 1)
         ELSE sub_months_step(y, m - 1, lpc - 1)
    ELSE <<y, m>>

crm_time_add_months_no_clamp(t, extra) ==
    LET g == crm_time_get_gregorian(t)
        ym == IF extra > 0
              THEN add_months_step(g[1], g[2], extra)
              ELSE sub_months_step(g[1], g[2], -extra)
    IN  [t EXCEPT !.years = ym[1], !.days = get_ordinal_days(ym[1], ym[2], g[3])]

crm_time_add_months(t, extra) ==
    LET g == crm_time_get_gregorian(t)
        ym == IF extra > 0
              THEN add_months_step(g[1], g[2], extra)
              ELSE sub_months_step(g[1], g[2], -extra)
        dmax == crm_time_days_in_month(ym[2], ym[1])
        d == IF dmax < g[3] THEN dmax ELSE g[3]
    IN  [t EXCEPT !.years = ym[1], !.days = get_ordinal_days(ym[1], ym[2], d)]

crm_time_add_minutes(t, extra) == crm_time_add_seconds(t, extra * 60)

crm_time_add_hours(t, extra) == crm_time_add_seconds(t, extra * 60 * 60)

crm_time_add_weeks(t, extra) == crm_time_add_days(t, extra * 7)

\* crm_time_add_years counting the years as months
crm_time_add_years_as_months(t, extra) == [t EXCEPT !.months = @ + (12 * extra)]

crm_time_add_years(t, extra) == [t EXCEPT !.years = @ + extra]


(***************************************************************************)
(* Values returned by the library: UTC copy, set, sum, difference, order.  *)
(***************************************************************************)
\* a struct fresh from calloc
calloc_crm_time == [years |-> 0, months |-> 0, days |-> 0, seconds |-> 0,
                    offset |-> 0, duration |-> FALSE]

crm_get_utc_time_keep_offset(t) ==
    [calloc_crm_time EXCEPT !.years = t.years, !.days = t.days,
                            !.seconds = t.seconds, !.months = t.months]

\* crm_get_utc_time with the offset added
crm_get_utc_time_plus_offset(t) ==
    LET utc == [calloc_crm_time EXCEPT !.years = t.years, !.days = t.days,
                                       !.seconds = t.seconds]
    IN  IF t.offset # 0
        THEN crm_time_add_seconds(utc, t.offset)
        ELSE [utc EXCEPT !.months = t.months]

crm_get_utc_time(t) ==
    LET utc == [calloc_crm_time EXCEPT !.years = t.years, !.days = t.days,
                                       !.seconds = t.seconds]
    IN  IF t.offset # 0
        THEN crm_time_add_seconds(utc, -t.offset)
        ELSE [utc EXCEPT !.months = t.months]

\* crm_time_set(target, source): the value of *target afterwards
crm_time_set(target, source) ==
    IF target # NULL /\ source # NULL
    THEN [target EXCEPT !.years = source.years, !.days = source.days,
                        !.months = source.months, !.seconds = source.seconds,
                        !.offset = source.offset]
    ELSE target

crm_time_add_days_first(t, value) ==
    IF t = NULL \/ value = NULL
    THEN NULL
    ELSE LET answer == crm_time_set(calloc_crm_time, t)
             utc == crm_get_utc_time(value)
             a1 == [answer EXCEPT !.years = @ + utc.years]
             a2 == crm_time_add_days(a1, utc.days)
             a3 == crm_time_add_months(a2, utc.months)
         IN  crm_time_add_seconds(a3, utc.seconds)

crm_time_add(t, value) ==
    IF t = NULL \/ value = NULL
    THEN NULL
    ELSE LET answer == crm_time_set(calloc_crm_time, t)
             utc == crm_get_utc_time(value)
             a1 == [answer EXCEPT !.years = @ + utc.years]
             a2 == crm_time_add_months(a1, utc.months)
             a3 == crm_time_add_days(a2, utc.days)
         IN  crm_time_add_seconds(a3, utc.seconds)

crm_time_subtract_no_seconds(t, value) ==
    IF t = NULL \/ value = NULL
    THEN NULL
    ELSE LET answer == crm_time_set(calloc_crm_time, t)
             utc == crm_get_utc_time(value)
             a1 == [answer EXCEPT !.years = @ - utc.years]
             a2 == IF utc.months # 0
                   THEN crm_time_add_months(a1, -utc.months)
                   ELSE a1
         IN  crm_time_add_days(a2, -utc.days)

crm_time_subtract(t, value) ==
    IF t = NULL \/ value = NULL
    THEN NULL
    ELSE LET answer == crm_time_set(calloc_crm_time, t)
             utc == crm_get_utc_time(value)
             a1 == [answer EXCEPT !.years = @ - utc.years]
             a2 == IF utc.months # 0
                   THEN crm_time_add_months(a1, -utc.months)
                   ELSE a1
             a3 == crm_time_add_days(a2, -utc.days)
         IN  crm_time_add_seconds(a3, -utc.seconds)

crm_time_calculate_duration(t, value) ==
    IF t = NULL \/ value = NULL
    THEN NULL
    ELSE LET utc == crm_get_utc_time(value)
             answer == [crm_get_utc_time(t) EXCEPT !.duration = TRUE]
             a1 == [answer EXCEPT !.years = @ - utc.years]
             a2 == IF utc.months # 0
                   THEN crm_time_add_months(a1, -utc.months)
                   ELSE a1
             a3 == crm_time_add_days(a2, -utc.days)
         IN  crm_time_add_seconds(a3, -utc.seconds)

\* the macro do_cmp_field(l, r, field): the value of rc afterwards
do_cmp_field(r, l_field, r_field) ==
    IF r = 0
    THEN IF l_field > r_field THEN 1
         ELSE IF l_field < r_field THEN -1 ELSE r
    ELSE r

crm_time_compare_null_last(x, y) ==
    IF x = NULL /\ y = NULL THEN 0
    ELSE IF x = NULL THEN 1
    ELSE IF y = NULL THEN -1
    ELSE LET t1 == crm_get_utc_time(x)
             t2 == crm_get_utc_time(y)
             r1 == do_cmp_field(0, t1.years, t2.years)
             r2 == do_cmp_field(r1, t1.days, t2.days)
         IN  do_cmp_field(r2, t1.seconds, t2.seconds)

crm_time_compare(x, y) ==
    IF x = NULL /\ y = NULL THEN 0
    ELSE IF x = NULL THEN -1
    ELSE IF y = NULL THEN 1
    ELSE LET t1 == crm_get_utc_time(x)
             t2 == crm_get_utc_time(y)
             r1 == do_cmp_field(0, t1.years, t2.years)
             r2 == do_cmp_field(r1, t1.days, t2.days)
         IN  do_cmp_field(r2, t1.seconds, t2.seconds)

(***************************************************************************)
(* Strings are sequences of one-character strings, without the final NUL;  *)
(* a char * into a string is the 1-based position it points at, Len + 1    *)
(* being the NUL, and 0 stands for a null pointer.                         *)
(***************************************************************************)
DigitChars == <<"0", "1", "2", "3", "4", "5", "6", "7", "8", "9">>

isdigit(ch) == \E i \in 1..10 : DigitChars[i] = ch

digit_value(ch) == (CHOOSE i \in 1..10 : DigitChars[i] = ch) - 1

isspace(ch) == ch \in {" ", "\t", "\n"}

\* strstr(str + from - 1, ch) for a one-character needle
RECURSIVE strstr(_, _, _)
strstr(str, from, ch) ==
    IF from > Len(str) THEN 0
    ELSE IF str[from] = ch THEN from
    ELSE strstr(str, from + 1, ch)

RECURSIVE skip_space(_, _)
skip_space(str, p) ==
    IF p <= Len(str) /\ isspace(str[p]) THEN skip_space(str, p + 1) ELSE p

(***************************************************************************)
(* sscanf with the conversions the library uses: %d and %<width>d, and     *)
(* literal characters.  A format is a sequence of directives, width 0      *)
(* meaning no width.                                                       *)
(***************************************************************************)
FmtInt(w) == [k |-> "d", w |-> w, ch |-> ""]
FmtLit(ch) == [k |-> "c", w |-> 0, ch |-> ch]

\* the digits of one %d: <<value, position after them, how many were read>>
RECURSIVE scan_digits(_, _, _, _, _)
scan_digits(str, p, room, acc, n) ==
    IF p <= Len(str) /\ isdigit(str[p]) /\ room # 0
    THEN scan_digits(str, p + 1, room - 1, acc * 10 + digit_value(str[p]), n + 1)
    ELSE <<acc, p, n>>

\* one %d conversion at position p: what ("ok", "eof" or "fail"), the value
\* and the position after it; room is the width, or -1 for none
scan_int(str, p, w) ==
    LET p1 == skip_space(str, p)
        room == IF w = 0 THEN -1 ELSE w
    IN  IF p1 > Len(str)
        THEN [what |-> "eof", val |-> 0, pos |-> p1]
        ELSE LET signed == str[p1] \in {"+", "-"}
                 p2 == IF signed THEN p1 + 1 ELSE p1
                 room2 == IF signed /\ room > 0 THEN room - 1 ELSE room
                 ds == scan_digits(str, p2, room2, 0, 0)
             IN  IF ds[3] = 0
                 THEN [what |-> "fail", val |-> 0, pos |-> p2]
                 ELSE [what |-> "ok",
                       val |-> IF str[p1] = "-" THEN -ds[1] ELSE ds[1],
                       pos |-> ds[2]]

\* sscanf(str + from - 1, fmt): [rc |-> return value, vals |-> the values
\* stored, in order]
RECURSIVE sscanf_from(_, _, _, _, _)
sscanf_from(str, p, fmt, i, vals) ==
    IF i > Len(fmt)
    THEN [rc |-> Len(vals), vals |-> vals]
    ELSE IF fmt[i].k = "d"
         THEN LET r == scan_int(str, p, fmt[i].w)
              IN  IF r.what = "ok"
                  THEN sscanf_from(str, r.pos, fmt, i + 1, Append(vals, r.val))
                  ELSE IF r.what = "eof" /\ Len(vals) = 0
                       THEN [rc |-> -1, vals |-> vals]
                       ELSE [rc |-> Len(vals), vals |-> vals]
         ELSE IF p <= Len(str) /\ str[p] = fmt[i].ch
              THEN sscanf_from(str, p + 1, fmt, i + 1, vals)
              ELSE IF p > Len(str) /\ Len(vals) = 0
                   THEN [rc |-> -1, vals |-> vals]
                   ELSE [rc |-> Len(vals), vals |-> vals]

sscanf(str, from, fmt) == sscanf_from(str, from, fmt, 1, <<>>)

\* the variable a conversion stores into: its new value if the conversion
\* was made, its old value if not
stored(r, i, old) == IF r.rc >= i THEN r.vals[i] ELSE old

(***************************************************************************)
(* Time of day and timezone.                                               *)
(***************************************************************************)
FMT_HMS == <<FmtInt(0), FmtLit(":"), FmtInt(0), FmtLit(":"), FmtInt(0)>>
FMT_HMS_COMPACT == <<FmtInt(2), FmtInt(2), FmtInt(2)>>

\* x >= limit for x of type uint that was scanned with %d
uint_ge(x, limit) == x < 0 \/ x >= limit

\* hour, minute and second after the two sscanf calls r1 and r2, and the
\* return value of the last one made
parse_sec_fields(r1, r2) ==
    [rc |-> r2.rc,
     hour |-> stored(r2, 1, stored(r1, 1, 0)),
     minute |-> stored(r2, 2, stored(r1, 2, 0)),
     second |-> stored(r2, 3, stored(r1, 3, 0))]

\* the range checks of crm_time_parse_sec and its return value
parse_sec_value(f) ==
    IF f.rc > 0 /\ f.rc < 4
    THEN IF uint_ge(f.hour, 24) THEN f.second
         ELSE IF uint_ge(f.minute, 60) THEN f.second
         ELSE IF uint_ge(f.second, 60) THEN f.second
         ELSE f.second + (f.minute * 60) + (f.hour * 60 * 60)
    ELSE f.second

\* crm_time_parse_sec from "if (rc == 1)" on, r1 being the first sscanf
parse_sec_rescan(str, from, r1) ==
    parse_sec_value(parse_sec_fields(r1,
        IF r1.rc = 1 THEN sscanf(str, from, FMT_HMS_COMPACT) ELSE r1))

crm_time_parse_sec(str, from) ==
    parse_sec_rescan(str, from, sscanf(str, from, FMT_HMS))

\* crm_time_parse_offset(NULL): the offset of the host, in whole minutes
host_offset ==
    LET h_offset == CDiv(gmtoff, 3600)
        m_offset0 == CDiv(gmtoff - (3600 * h_offset), 60)
        m_offset == IF h_offset < 0 /\ m_offset0 < 0 THEN 0 - m_offset0
                    ELSE m_offset0
    IN  (60 * 60 * h_offset) + (60 * m_offset)

crm_time_parse_offset(str, offset_s) ==
    IF offset_s = 0 THEN host_offset
    ELSE IF offset_s > Len(str) THEN 0
    ELSE IF str[offset_s] = "Z" THEN 0
    ELSE IF str[offset_s] = "+" \/ str[offset_s] = "-" \/ isdigit(str[offset_s])
         THEN (IF str[offset_s] = "-" THEN 0 - 1 ELSE 1) *
              crm_time_parse_sec(str, IF str[offset_s] = "-" THEN offset_s + 1
                                      ELSE offset_s)
         ELSE 0

\* crm_time_parse(str + time_str - 1, a_time) for a_time # NULL: *a_time
\* afterwards
crm_time_parse(str, time_str, a_time) ==
    LET z == strstr(str, time_str, "Z")
        offset_s0 == IF z = 0 THEN strstr(str, time_str, " ") ELSE z
        offset_s == IF offset_s0 # 0 THEN skip_space(str, offset_s0) ELSE 0
    IN  [a_time EXCEPT !.seconds = crm_time_parse_sec(str, time_str),
                       !.offset = crm_time_parse_offset(str, offset_s)]

(***************************************************************************)
(* parse_date.                                                             *)
(***************************************************************************)
FMT_GREGORIAN == <<FmtInt(0), FmtLit("-"), FmtInt(0), FmtLit("-"), FmtInt(0)>>
FMT_GREGORIAN_COMPACT == <<FmtInt(4), FmtInt(2), FmtInt(2)>>
FMT_ORDINAL == <<FmtInt(0), FmtLit("-"), FmtInt(0)>>
FMT_WEEK == <<FmtInt(0), FmtLit("-"), FmtLit("W"), FmtInt(0), FmtLit("-"), FmtInt(0)>>

\* date_str[i] of the C string, the final NUL being ""
char_at(str, i) == IF i < Len(str) THEN str[i + 1] ELSE ""

\* the branch "YYYY-MM-DD" of parse_date, from rc == 3 on
parse_date_gregorian(t, year, month, day) ==
    IF month > 12 THEN t
    ELSE IF day > 31 THEN t
    ELSE [t EXCEPT !.years = year, !.days = get_ordinal_days(year, month, day)]

\* the branch "YYYY-DDD"
parse_date_ordinal(t, year, day) ==
    IF day > year_days(year) THEN t
    ELSE [t EXCEPT !.days = day, !.years = year]

parse_date_week_jan1_lt4(t, year, week, day) ==
    IF week > crm_time_weeks_in_year(year) THEN t
    ELSE IF day < 1 \/ day > 7 THEN t
    ELSE LET jan1 == crm_time_january1_weekday(year)
         IN  crm_time_add_days(
               crm_time_add_days(
                 crm_time_add_days([t EXCEPT !.years = year], (week - 1) * 7),
                 IF jan1 < 4 THEN 1 - jan1 ELSE 8 - jan1),
               day)

\* the branch "YYYY-Www-D"
parse_date_week(t, year, week, day) ==
    IF week > crm_time_weeks_in_year(year) THEN t
    ELSE IF day < 1 \/ day > 7 THEN t
    ELSE LET jan1 == crm_time_january1_weekday(year)
         IN  crm_time_add_days(
               crm_time_add_days(
                 crm_time_add_days([t EXCEPT !.years = year], (week - 1) * 7),
                 IF jan1 <= 4 THEN 1 - jan1 ELSE 8 - jan1),
               day)

\* the branch parse_date takes: g1 and g are the sscanf calls for YYYY-MM-DD
\* and YYYYMMDD, o the one for YYYY-DDD and w the one for YYYY-Www-D, each
\* storing into the same year and day
parse_date_branch(t, g1, g, o, w) ==
    LET year1 == stored(g, 1, stored(g1, 1, 0))
        month == stored(g, 2, stored(g1, 2, 0))
        day1 == stored(g, 3, stored(g1, 3, 0))
        year2 == stored(o, 1, year1)
        day2 == stored(o, 2, day1)
        year3 == stored(w, 1, year2)
        week == stored(w, 2, 0)
        day3 == stored(w, 3, day2)
    IN  IF g.rc = 3 THEN parse_date_gregorian(t, year1, month, day1)
        ELSE IF o.rc = 2 THEN parse_date_ordinal(t, year2, day2)
        ELSE IF w.rc = 3 THEN parse_date_week(t, year3, week, day3)
        ELSE t

\* parse_date from "if (rc == 1)" on, g1 being the first sscanf
parse_date_rescan(str, g1) ==
    parse_date_branch(calloc_crm_time, g1,
        IF g1.rc = 1 THEN sscanf(str, 1, FMT_GREGORIAN_COMPACT) ELSE g1,
        sscanf(str, 1, FMT_ORDINAL),
        sscanf(str, 1, FMT_WEEK))

\* the date forms tried in turn, up to the label done
parse_date_forms(str) == parse_date_rescan(str, sscanf(str, 1, FMT_GREGORIAN))

\* the final crm_time_check of parse_date
parse_date_checked(t) == IF crm_time_check(t) THEN t ELSE NULL

\* from the label done on: the time of day, and the final check
parse_date_done(str, t) ==
    parse_date_checked(
        IF strstr(str, 1, " ") # 0
        THEN crm_time_parse(str, strstr(str, 1, " ") + 1, t)
        ELSE IF strstr(str, 1, "T") # 0
             THEN crm_time_parse(str, strstr(str, 1, "T") + 1, t)
             ELSE t)

EPOCH_STR == <<"e", "p", "o", "c", "h">>

parse_date(str) ==
    IF Len(str) = 0 THEN NULL
    ELSE IF str = EPOCH_STR /\ ~(char_at(str, 0) = "T" \/ char_at(str, 2) = ":")
         THEN [calloc_crm_time EXCEPT !.days = 1, !.years = 1970]
    ELSE parse_date_done(str,
             IF char_at(str, 0) = "T" \/ char_at(str, 2) = ":"
             THEN crm_time_parse(str, 1, now)
             ELSE parse_date_forms(str))

\* crm_time_new(date_time) for date_time # NULL
crm_time_new(str) == parse_date(str)

(***************************************************************************)
(* parse_int and crm_time_parse_duration.  A position past the end of the  *)
(* string reads the terminating NUL, written "".                           *)
(***************************************************************************)
\* str[p - 1] of the C string that starts at position 1
ch_at(str, p) == IF p <= Len(str) THEN str[p] ELSE ""

\* x ^ y of C (exclusive or) for x, y >= 0
RECURSIVE c_xor(_, _)
c_xor(x, y) ==
    IF x = 0 THEN y
    ELSE IF y = 0 THEN x
    ELSE (2 * c_xor(x \div 2, y \div 2)) + ((x + y) % 2)

\* the digit loop of parse_int: <<*result, offset, lpc>>; a division by
\* 10 ^ lpc = 0 is undefined
RECURSIVE parse_int_loop(_, _, _, _, _, _)
parse_int_loop(str, offset, lpc, result, fraction, field_width) ==
    IF (fraction \/ lpc < field_width) /\ isdigit(ch_at(str, offset))
    THEN parse_int_loop(str, offset + 1, lpc + 1,
             IF fraction
             THEN result + (IF c_xor(10, lpc) = 0 THEN oob
                            ELSE CDiv(digit_value(ch_at(str, offset)), c_xor(10, lpc)))
             ELSE (result * 10) + digit_value(ch_at(str, offset)),
             fraction, field_width)
    ELSE <<result, offset, lpc>>

\* parse_int from the end of its loop on: l is what the loop left
parse_int_result(l, from, fraction, negate, uppper_bound) ==
    [rc |-> IF l[3] > 0 THEN l[2] - from ELSE 0,
     result |-> (IF negate THEN 0 - 1 ELSE 1) *
                (IF fraction THEN l[1] * uppper_bound
                 ELSE IF uppper_bound > 0 /\ l[1] > uppper_bound THEN uppper_bound
                 ELSE l[1])]

\* parse_int after the optional 'T': the sign or fraction mark at offset
parse_int_signed(str, from, offset, field_width, uppper_bound) ==
    parse_int_result(
        parse_int_loop(str,
            IF ch_at(str, offset) \in {".", ",", "-", "+", ":"}
            THEN offset + 1 ELSE offset,
            0, 0, ch_at(str, offset) \in {".", ","},
            IF ch_at(str, offset) \in {".", ","} THEN 0 - 1 ELSE field_width),
        from, ch_at(str, offset) \in {".", ","}, ch_at(str, offset) = "-",
        uppper_bound)

\* parse_int(str + from - 1, field_width, uppper_bound, &result):
\* [rc |-> the return value, result |-> *result]
parse_int(str, from, field_width, uppper_bound) ==
    IF ch_at(str, from) = ""
    THEN [rc |-> 0, result |-> 0]
    ELSE parse_int_signed(str, from,
             IF ch_at(str, from) = "T" THEN from + 1 ELSE from,
             field_width, uppper_bound)

duration_unit_months_after_T(diff, ch, an_int, is_time) ==
    IF ch = "Y" THEN [diff EXCEPT !.years = an_int]
    ELSE IF ch = "M" THEN [diff EXCEPT !.months = an_int]
    ELSE IF ch = "W" THEN [diff EXCEPT !.days = @ + (an_int * 7)]
    ELSE IF ch = "D" THEN [diff EXCEPT !.days = @ + an_int]
    ELSE IF ch = "H" THEN [diff EXCEPT !.seconds = @ + (an_int * 60 * 60)]
    ELSE [diff EXCEPT !.seconds = @ + an_int]

\* the switch (ch) of crm_time_parse_duration, for a unit letter
duration_unit(diff, ch, an_int, is_time) ==
    IF ch = "Y" THEN [diff EXCEPT !.years = an_int]
    ELSE IF ch = "M"
         THEN IF is_time THEN [diff EXCEPT !.seconds = @ + (an_int * 60)]
              ELSE [diff EXCEPT !.months = an_int]
    ELSE IF ch = "W" THEN [diff EXCEPT !.days = @ + (an_int * 7)]
    ELSE IF ch = "D" THEN [diff EXCEPT !.days = @ + an_int]
    ELSE IF ch = "H" THEN [diff EXCEPT !.seconds = @ + (an_int * 60 * 60)]
    ELSE [diff EXCEPT !.seconds = @ + an_int]

\* the while loop of crm_time_parse_duration with period_s at position p
RECURSIVE parse_duration_loop(_, _, _, _)
\* one pass of the loop after parse_int returned r for position p1
parse_duration_token(str, p1, diff, is_time, r) ==
    IF r.rc = 0 THEN diff
    ELSE IF ch_at(str, p1 + r.rc) = "" THEN diff
    ELSE IF ch_at(str, p1 + r.rc) \in {"Y", "M", "W", "D", "H", "S"}
         THEN parse_duration_loop(str, p1 + r.rc + 1,
                  duration_unit(diff, ch_at(str, p1 + r.rc), r.result, is_time),
                  is_time)
         ELSE NULL

\* one pass of the loop from "rc = parse_int(...)" on
parse_duration_pass(str, p1, diff, is_time) ==
    parse_duration_token(str, p1, diff, is_time, parse_int(str, p1, 10, 0))

parse_duration_loop(str, p, diff, is_time) ==
    IF isspace(ch_at(str, p)) THEN diff
    ELSE IF ch_at(str, p) = "T"
         THEN parse_duration_pass(str, p + 1, diff, TRUE)
         ELSE parse_duration_pass(str, p, diff, is_time)

\* crm_time_parse_duration(str + from - 1) for a string that is not NULL
crm_time_parse_duration(str, from) ==
    IF ch_at(str, from) = "" THEN NULL
    ELSE IF ch_at(str, from) # "P" THEN NULL
    ELSE parse_duration_loop(str, from + 1, calloc_crm_time, FALSE)

(***************************************************************************)
(* crm_time_parse_period: NULL or [start, end, diff].                      *)
(***************************************************************************)
\* str + p - 1 as a string of its own
str_from(str, p) == SubSeq(str, p, Len(str))

\* the part of the period before the '/'
period_first(str) ==
    IF ch_at(str, 1) = "P"
    THEN [start |-> NULL, end |-> NULL, diff |-> crm_time_parse_duration(str, 1)]
    ELSE [start |-> parse_date(str), end |-> NULL, diff |-> NULL]

\* the part after the '/': slash is the position strstr found, 0 if none
period_second(str, period, slash) ==
    IF slash # 0
    THEN IF ch_at(str, slash + 1) = "P"
         THEN [period EXCEPT !.diff = crm_time_parse_duration(str, slash + 1)]
         ELSE [period EXCEPT !.end = parse_date(str_from(str, slash + 1))]
    ELSE IF period.diff # NULL
         THEN [period EXCEPT !.start = now]
         ELSE NULL

\* the sanity checks and the derivation of the missing end
period_derive(period) ==
    IF period = NULL THEN NULL
    ELSE IF period.start = NULL /\ period.end = NULL THEN NULL
    ELSE IF period.start = NULL /\ period.diff = NULL THEN NULL
    ELSE IF period.end = NULL /\ period.diff = NULL THEN NULL
    ELSE IF period.start = NULL
         THEN [period EXCEPT !.start = crm_time_subtract(period.end, period.diff)]
    ELSE IF period.end = NULL
         THEN [period EXCEPT !.end = crm_time_add(period.start, period.diff)]
    ELSE period

\* crm_time_parse_period(str) for a string that is not NULL
crm_time_parse_period(str) ==
    IF Len(str) = 0 THEN NULL
    ELSE period_derive(period_second(str, period_first(str), strstr(str, 1, "/")))

(***************************************************************************)
(* crm_time_get_seconds and crm_time_get_seconds_since_epoch.  A long long *)
(* number of seconds is written <<q, r>> for q * 86400 + r, r in 0..86399. *)
(***************************************************************************)
ll_seconds(days, seconds) == <<days + (seconds \div 86400), seconds % 86400>>

\* the loop "for (lpc = lo; lpc < hi; lpc++) in_seconds += 60 * 60 * 24 *
\* year_days(lpc)": the days it adds, summed by halves
RECURSIVE get_seconds_years(_, _)
get_seconds_years(lo, hi) ==
    IF hi <= lo THEN 0
    ELSE IF hi = lo + 1 THEN year_days(lo)
    ELSE get_seconds_years(lo, (lo + hi) \div 2)
             + get_seconds_years((lo + hi) \div 2, hi)

\* crm_time_get_seconds from the loop on, utc being crm_get_utc_time(dt)
get_seconds_utc(utc) ==
    ll_seconds(get_seconds_years(1, utc.years)
                   + (IF utc.months > 0 THEN 30 * utc.months ELSE 0)
                   + (IF utc.days > 0 THEN utc.days - 1 ELSE 0),
               utc.seconds)

crm_time_get_seconds_local(t) == get_seconds_utc(t)

crm_time_get_seconds(t) == get_seconds_utc(crm_get_utc_time(t))

\* 62135596800 = 719162 * 86400
EPOCH_SECONDS == <<719162, 0>>

\* the difference is taken in unsigned long long and returned as long long,
\* which is the difference itself wherever it fits
ll_minus(x, y) == ll_seconds(x[1] - y[1], x[2] - y[2])

crm_time_get_seconds_since_epoch(t) ==
    ll_minus(crm_time_get_seconds(t), EPOCH_SECONDS)

(***************************************************************************)
(* crm_time_get_sec, crm_time_get_ordinal, crm_time_get_isoweek and        *)
(* crm_time_as_string.  The flags are the set of the names of the bits     *)
(* that are set; the forms of crm_time_log_duration, crm_time_seconds and  *)
(* crm_time_epoch are not modelled.                                        *)
(***************************************************************************)
\* <<h, m, s>> of a number of seconds, its sign dropped
crm_time_get_sec(sec) ==
    LET seconds == IF sec < 0 THEN 0 - sec ELSE sec
        hours == CDiv(seconds, 60 * 60)
        minutes == CDiv(seconds - (60 * 60 * hours), 60)
    IN  <<hours, minutes, seconds - (60 * 60 * hours) - (60 * minutes)>>

crm_time_get_timeofday(t) == crm_time_get_sec(t.seconds)

\* crm_time_get_timezone: <<*h, *m>>
crm_time_get_timezone(t) ==
    LET hms == crm_time_get_sec(t.seconds)
    IN  <<hms[1], hms[2]>>

crm_time_get_ordinal(t) == <<t.years, t.days>>

\* steps 7 and 9 without step 8: no day is counted in week 1 of the year after
get_isoweek_year_no_next(t, jan1, d) ==
    IF t.days <= (8 - jan1) /\ jan1 > 4
    THEN <<t.years - 1, crm_time_weeks_in_year(t.years - 1), d>>
    ELSE <<t.years,
           CDiv(t.days + (7 - d) + (jan1 - 1), 7) - (IF jan1 > 4 THEN 1 ELSE 0),
           d>>

\* steps 7 to 9 of crm_time_get_isoweek: <<y, w, d>> for the weekday d
get_isoweek_year(t, jan1, d) ==
    IF t.days <= (8 - jan1) /\ jan1 > 4
    THEN <<t.years - 1, crm_time_weeks_in_year(t.years - 1), d>>
    ELSE IF (year_days(t.years) - t.days) < (4 - d)
         THEN <<t.years + 1, 1, d>>
         ELSE <<t.years,
                CDiv(t.days + (7 - d) + (jan1 - 1), 7) - (IF jan1 > 4 THEN 1 ELSE 0),
                d>>

get_isoweek_weekday(t, jan1) ==
    get_isoweek_year(t, jan1, 1 + CMod((t.days + jan1 - 1) - 1, 7))

\* crm_time_get_isoweek: [ok |-> the return value, ywd |-> <<*y, *w, *d>>]
crm_time_get_isoweek(t) ==
    IF t.days > 0
    THEN [ok |-> TRUE,
          ywd |-> get_isoweek_weekday(t, crm_time_january1_weekday(t.years))]
    ELSE [ok |-> FALSE, ywd |-> <<0, 0, 0>>]

\* the digits of n >= 0
RECURSIVE fmt_digits(_)
fmt_digits(n) ==
    IF n < 10 THEN <<DigitChars[n + 1]>>
    ELSE Append(fmt_digits(n \div 10), DigitChars[(n % 10) + 1])

\* the digits ds padded with zeros to at least prec characters
fmt_pad(ds, prec) == [i \in 1..(prec - Len(ds)) |-> "0"] \o ds

\* snprintf of "%.<prec>u", and of "%u" for prec = 1, for n >= 0
fmt_u(n, prec) == fmt_pad(fmt_digits(n), prec)

\* the date of crm_time_as_string for the flags weeks, ordinal or neither
as_string_week(r) ==
    IF r.ok
    THEN fmt_u(r.ywd[1], 1) \o <<"-", "W">> \o fmt_u(r.ywd[2], 2) \o <<"-">>
             \o fmt_u(r.ywd[3], 1)
    ELSE <<>>

as_string_ordinal(yd) == fmt_u(yd[1], 1) \o <<"-">> \o fmt_u(yd[2], 3)

as_string_gregorian(ymd) ==
    fmt_u(ymd[1], 4) \o <<"-">> \o fmt_u(ymd[2], 2) \o <<"-">> \o fmt_u(ymd[3], 2)

as_string_date(t, flags) ==
    IF "crm_time_weeks" \in flags THEN as_string_week(crm_time_get_isoweek(t))
    ELSE IF "crm_time_ordinal" \in flags
         THEN as_string_ordinal(crm_time_get_ordinal(t))
         ELSE as_string_gregorian(crm_time_get_gregorian(t))

as_string_hms(hms) ==
    fmt_u(hms[1], 2) \o <<":">> \o fmt_u(hms[2], 2) \o <<":">> \o fmt_u(hms[3], 2)

\* offset_s with the sign always written as +
as_string_offset_plus(t, flags, hm) ==
    IF "crm_time_log_with_timezone" \notin flags \/ t.offset = 0
    THEN <<"Z">>
    ELSE <<" ", "+">> \o fmt_u(hm[1], 2) \o <<":">> \o fmt_u(hm[2], 2)

\* offset_s: hm is what crm_time_get_sec(dt->offset) gave
as_string_offset(t, flags, hm) ==
    IF "crm_time_log_with_timezone" \notin flags \/ t.offset = 0
    THEN <<"Z">>
    ELSE <<" ", IF t.offset < 0 THEN "-" ELSE "+">> \o fmt_u(hm[1], 2)
             \o <<":">> \o fmt_u(hm[2], 2)

\* crm_time_as_string once dt is chosen
as_string_dt(t, flags) ==
    (IF "crm_time_log_date" \in flags THEN as_string_date(t, flags) ELSE <<>>)
    \o (IF "crm_time_log_date" \in flags /\ "crm_time_log_timeofday" \in flags
        THEN <<" ">> ELSE <<>>)
    \o (IF "crm_time_log_timeofday" \in flags
        THEN as_string_hms(crm_time_get_timeofday(t))
                 \o as_string_offset(t, flags, crm_time_get_sec(t.offset))
        ELSE <<>>)

crm_time_as_string(date_time, flags) ==
    IF date_time = NULL THEN <<>>
    ELSE IF date_time.offset # 0 /\ "crm_time_log_with_timezone" \notin flags
         THEN as_string_dt(crm_get_utc_time(date_time), flags)
         ELSE as_string_dt(date_time, flags)

(***************************************************************************)
(* Values the specifications start from.                                   *)
(***************************************************************************)
Instant(y, d, s, o) ==
    [years |-> y, months |-> 0, days |-> d, seconds |-> s, offset |-> o,
     duration |-> FALSE]

IsValidInstant(t) ==
    /\ t # NULL
    /\ t.days \in 1..year_days(t.years)
    /\ t.seconds \in 0..(DAY_SECONDS - 1)
    /\ t.months = 0

ArithYears == (MinYear..MaxYear) \cup {1900}

ArithInstants ==
    {t \in {Instant(y, d, s, o) : y \in ArithYears, d \in {1, 60, 365, 366},
                                  s \in {0, 86399}, o \in {0, 19800}} :
        IsValidInstant(t)}

SecondArgs == {-(DAY_SECONDS * MaxDaySpan + 1), -1, 1, DAY_SECONDS + 1}
MinuteArgs == {-1441, -1, 1, 60 * 24 * MaxDaySpan}
HourArgs == {-25, 1, 24 * MaxDaySpan}
DayArgs == {-(366 * MaxYearSpan), -1, 1, 365, 366}
WeekArgs == {-53, 1, 52 * MaxYearSpan}
MonthArgs == {-13, -1, 1, 12}
YearArgs == {-1, 1, 4}

NoCalls ==
    /\ a = NULL /\ b = NULL /\ c = NULL /\ dur = NULL
    /\ sum = NULL /\ sum_b = NULL /\ back = NULL /\ rc = NULL

OobInts == {-1, 31}

NoParse ==
    /\ inp = NULL /\ date_str = <<>> /\ gmtoff = 0 /\ res = NULL /\ now = NULL

(***************************************************************************)
(* Spec: a caller applies the in-place operations to one instant.          *)
(***************************************************************************)
Init ==
    /\ dt \in ArithInstants
    /\ pre = dt
    /\ op = "new"
    /\ arg = 0
    /\ steps = 0
    /\ oob \in OobInts
    /\ NoCalls
    /\ NoParse

InPlace(name, n, t) ==
    /\ steps < MaxOps
    /\ pre' = dt
    /\ dt' = t
    /\ op' = name
    /\ arg' = n
    /\ steps' = steps + 1
    /\ UNCHANGED <<call_vars, parse_vars, oob>>

AddSeconds == \E n \in SecondArgs : InPlace("add_seconds", n, crm_time_add_seconds(dt, n))

AddMinutes == \E n \in MinuteArgs : InPlace("add_minutes", n, crm_time_add_minutes(dt, n))

AddHours == \E n \in HourArgs : InPlace("add_hours", n, crm_time_add_hours(dt, n))

AddDays == \E n \in DayArgs : InPlace("add_days", n, crm_time_add_days(dt, n))

AddWeeks == \E n \in WeekArgs : InPlace("add_weeks", n, crm_time_add_weeks(dt, n))

AddMonths == \E n \in MonthArgs : InPlace("add_months", n, crm_time_add_months(dt, n))

AddYears == \E n \in YearArgs : InPlace("add_years", n, crm_time_add_years(dt, n))

Next ==
    \/ AddSeconds
    \/ AddMinutes
    \/ AddHours
    \/ AddDays
    \/ AddWeeks
    \/ AddMonths
    \/ AddYears

Spec == Init /\ [][Next]_vars

(***************************************************************************)
(* C1: after add_seconds, add_days, add_minutes, add_hours or add_weeks on *)
(* a valid instant the value is a valid instant again: crm_time_check is   *)
(* true, days is in [1, year_days(years)] and seconds is in [0, 86399].    *)
(***************************************************************************)
NormalizingOps == {"add_seconds", "add_days", "add_minutes", "add_hours", "add_weeks"}

Thm_C1 ==
    (op \in NormalizingOps /\ IsValidInstant(pre)) =>
        /\ crm_time_check(dt)
        /\ dt.days \in 1..year_days(dt.years)
        /\ dt.seconds \in 0..86399

\* a second subtracted at midnight of January 1 borrows a day and a year
Wit_C1 ==
    /\ op = "add_seconds" /\ arg = -1
    /\ IsValidInstant(pre) /\ pre.days = 1 /\ pre.seconds = 0
    /\ dt.years = pre.years - 1 /\ dt.days = year_days(dt.years)
    /\ dt.seconds = 86399

(***************************************************************************)
(* C2: after add_years on a valid instant the value still satisfies the    *)
(* instant invariants (crm_time_check is true, days <= year_days(years)).  *)
(***************************************************************************)
Cex_C2 ==
    (op = "add_years" /\ IsValidInstant(pre)) =>
        (crm_time_check(dt) /\ dt.days <= year_days(dt.years))

(***************************************************************************)
(* SpecAddSub: a caller adds a duration to an instant and subtracts it     *)
(* from the sum again.                                                     *)
(***************************************************************************)
Duration(y, m, d, s) ==
    [years |-> y, months |-> m, days |-> d, seconds |-> s, offset |-> 0,
     duration |-> FALSE]

SumInstants ==
    {t \in {Instant(y, d, s, o) : y \in ArithYears,
                                  d \in {1, 59, 60, 300, 365, 366},
                                  s \in {0, 86399}, o \in {0, 19800}} :
        IsValidInstant(t)}

Durations ==
    {Duration(y, m, d, s) : y \in {-1, 0, 1}, m \in {0, 1},
                            d \in {-366, -1, 0, 100},
                            s \in {-(DAY_SECONDS + 1), 0, 1}}

InitAddSub ==
    /\ a \in SumInstants
    /\ dur \in Durations
    /\ oob \in OobInts
    /\ op = "new"
    /\ b = NULL /\ c = NULL /\ sum = NULL /\ sum_b = NULL /\ back = NULL
    /\ rc = NULL
    /\ dt = NULL /\ pre = NULL /\ arg = 0 /\ steps = 0
    /\ NoParse

Add ==
    /\ op = "new"
    /\ sum' = crm_time_add(a, dur)
    /\ op' = "add"
    /\ UNCHANGED <<a, b, c, dur, sum_b, back, rc, arith_vars, parse_vars, oob>>

Subtract ==
    /\ op = "add"
    /\ back' = crm_time_subtract(sum, dur)
    /\ op' = "subtract"
    /\ UNCHANGED <<a, b, c, dur, sum, sum_b, rc, arith_vars, parse_vars, oob>>

NextAddSub == Add \/ Subtract

SpecAddSub == InitAddSub /\ [][NextAddSub]_vars

SameInstant(x, y) ==
    /\ x # NULL /\ y # NULL
    /\ x.years = y.years /\ x.days = y.days
    /\ x.seconds = y.seconds /\ x.offset = y.offset

(***************************************************************************)
(* C3 as stated: for every valid instant v and every duration d whose      *)
(* month field is zero, subtract(add(v, d), d) equals v in years, days,    *)
(* seconds and offset.                                                     *)
(***************************************************************************)
Cex_C3 ==
    (op = "subtract" /\ dur.months = 0) => SameInstant(back, a)

(***************************************************************************)
(* C3 amended: for every valid instant v and every duration d whose month  *)
(* and year fields are both zero, subtract(add(v, d), d) equals v in       *)
(* years, days, seconds and offset.                                        *)
(***************************************************************************)
Thm_C3 ==
    (op = "subtract" /\ dur.months = 0 /\ dur.years = 0) => SameInstant(back, a)

\* 100 days and a second added at the end of 1999-12-31 and taken off again,
\* through the leap day of 2000
Wit_C3 ==
    /\ op = "subtract" /\ dur.months = 0 /\ dur.years = 0
    /\ dur.days = 100 /\ dur.seconds = 1
    /\ a.years = 1999 /\ a.days = 365 /\ a.seconds = 86399
    /\ sum.years = 2000 /\ sum.days = 101 /\ sum.seconds = 0
    /\ SameInstant(back, a)

(***************************************************************************)
(* The moment of an instant on the UTC time line, from the closed form of  *)
(* the Gregorian calendar: <<days since 0001-01-01, second of that day>>.  *)
(***************************************************************************)
DaysBeforeYear(y) ==
    365 * (y - 1) + ((y - 1) \div 4) - ((y - 1) \div 100) + ((y - 1) \div 400)

UtcMoment(t) ==
    <<DaysBeforeYear(t.years) + (t.days - 1) + ((t.seconds - t.offset) \div 86400),
      (t.seconds - t.offset) % 86400>>

MomentOrder(x, y) ==
    LET mx == UtcMoment(x)
        my == UtcMoment(y)
    IN  IF mx[1] < my[1] \/ (mx[1] = my[1] /\ mx[2] < my[2]) THEN -1
        ELSE IF mx = my THEN 0 ELSE 1

CmpYears == (MaxYear - 1)..MaxYear

CmpInstants ==
    {t \in {Instant(y, d, s, o) : y \in CmpYears, d \in {1, 365, 366},
                                  s \in {0, 7200, 79200},
                                  o \in {-7200, 0, 7200}} :
        IsValidInstant(t) /\ t.days \in {1, year_days(t.years)}}

(***************************************************************************)
(* SpecMonotone: a caller adds the same number of seconds to two instants  *)
(* and compares them before and after.                                     *)
(***************************************************************************)
SecondDurations ==
    {Duration(0, 0, 0, s) : s \in {1, 7200, 86399, 86400, 90000}}

InitMonotone ==
    /\ a \in CmpInstants
    /\ b \in CmpInstants
    /\ dur \in SecondDurations
    /\ oob = 0
    /\ op = "new"
    /\ c = NULL /\ sum = NULL /\ sum_b = NULL /\ back = NULL /\ rc = NULL
    /\ dt = NULL /\ pre = NULL /\ arg = 0 /\ steps = 0
    /\ NoParse

AddBoth ==
    /\ op = "new"
    /\ sum' = crm_time_add(a, dur)
    /\ sum_b' = crm_time_add(b, dur)
    /\ rc' = [before |-> crm_time_compare(a, b),
              after |-> crm_time_compare(sum', sum_b')]
    /\ op' = "add_both"
    /\ UNCHANGED <<a, b, c, dur, back, arith_vars, parse_vars, oob>>

NextMonotone == AddBoth

SpecMonotone == InitMonotone /\ [][NextMonotone]_vars

(***************************************************************************)
(* C4: monotonicity of addition: for valid instants a and b (any offsets)  *)
(* and a duration d of a positive number of seconds, compare(a, b) < 0     *)
(* implies compare(add(a, d), add(b, d)) < 0.                              *)
(***************************************************************************)
Thm_C4 ==
    (op = "add_both" /\ rc.before < 0) =>
        (rc.after < 0 /\ MomentOrder(sum, sum_b) < 0)

\* a is two hours before b although its local date and time are later;
\* the sum of b crosses into the next year and the sum of a does not
Wit_C4 ==
    /\ op = "add_both" /\ rc.before < 0 /\ rc.after < 0
    /\ a.offset = 7200 /\ b.offset = -7200
    /\ a.years > b.years
    /\ sum.years = a.years /\ sum_b.years = b.years + 1

(***************************************************************************)
(* SpecCompare: a caller compares three instants pairwise.                 *)
(***************************************************************************)
InitCompare ==
    /\ a \in CmpInstants
    /\ b \in CmpInstants
    /\ c \in CmpInstants
    /\ oob = 0
    /\ op = "new"
    /\ dur = NULL /\ sum = NULL /\ sum_b = NULL /\ back = NULL /\ rc = NULL
    /\ dt = NULL /\ pre = NULL /\ arg = 0 /\ steps = 0
    /\ NoParse

Compare ==
    /\ op = "new"
    /\ rc' = [ab |-> crm_time_compare(a, b), ba |-> crm_time_compare(b, a),
              bc |-> crm_time_compare(b, c), ac |-> crm_time_compare(a, c)]
    /\ op' = "compare"
    /\ UNCHANGED <<a, b, c, dur, sum, sum_b, back, arith_vars, parse_vars, oob>>

NextCompare == Compare

SpecCompare == InitCompare /\ [][NextCompare]_vars

(***************************************************************************)
(* C5: compare is a total order on valid instants that does not depend on  *)
(* the offsets they are written in: compare(a, b) is -1, 0 or +1 as the    *)
(* UTC moment of a is before, equal to or after that of b, compare(a, b) = *)
(* -compare(b, a), and compare is transitive.                              *)
(***************************************************************************)
Thm_C5 ==
    (op = "compare") =>
        /\ rc.ab \in {-1, 0, 1}
        /\ rc.ab = MomentOrder(a, b)
        /\ rc.ab = -rc.ba
        /\ (rc.ab <= 0 /\ rc.bc <= 0) => rc.ac <= 0
        /\ (rc.ab <= 0 /\ rc.bc < 0) => rc.ac < 0
        /\ (rc.ab < 0 /\ rc.bc <= 0) => rc.ac < 0

\* one moment written under three offsets, in two different years
Wit_C5 ==
    /\ op = "compare"
    /\ a.offset = 7200 /\ b.offset = 0 /\ c.offset = -7200
    /\ a.years = b.years /\ c.years = b.years - 1
    /\ rc.ab = 0 /\ rc.bc = 0 /\ rc.ac = 0

(***************************************************************************)
(* The strings a caller hands to crm_time_new, written from the fields of  *)
(* inp: decimal numbers zero-padded to a width, as ISO 8601 writes them.   *)
(***************************************************************************)
RECURSIVE DecStr(_)
DecStr(n) == IF n < 10 THEN <<DigitChars[n + 1]>>
             ELSE Append(DecStr(n \div 10), DigitChars[(n % 10) + 1])

RECURSIVE Pad(_, _)
Pad(n, w) == IF n < 0 THEN <<"-">> \o Pad(-n, w - 1)
             ELSE LET ds == DecStr(n)
                  IN  [i \in 1..(w - Len(ds)) |-> "0"] \o ds

NoTz == [kind |-> "none", neg |-> FALSE, h |-> 0, m |-> 0, colon |-> FALSE,
         space |-> FALSE]

TzString(tz) ==
    (IF tz.space THEN <<" ">> ELSE <<>>) \o
    (IF tz.kind = "Z" THEN <<"Z">>
     ELSE IF tz.kind = "num"
          THEN (IF tz.neg THEN <<"-">> ELSE <<"+">>) \o Pad(tz.h, 2) \o
               (IF tz.colon THEN <<":">> ELSE <<>>) \o Pad(tz.m, 2)
          ELSE <<>>)

DateString(i) ==
    IF i.form = "week"
    THEN Pad(i.y, 4) \o <<"-", "W">> \o Pad(i.w, 2) \o <<"-">> \o Pad(i.d, 1)
    ELSE IF i.compact
         THEN Pad(i.y, 4) \o Pad(i.m, 2) \o Pad(i.d, 2)
         ELSE Pad(i.y, 4) \o <<"-">> \o Pad(i.m, 2) \o <<"-">> \o Pad(i.d, 2)

TimeString(i) ==
    IF i.colon
    THEN Pad(i.hh, 2) \o <<":">> \o Pad(i.mm, 2) \o <<":">> \o Pad(i.ss, 2)
    ELSE Pad(i.hh, 2) \o Pad(i.mm, 2) \o Pad(i.ss, 2)

InputString(i) ==
    IF i.form = "datetime"
    THEN DateString(i) \o <<i.sep>> \o TimeString(i) \o TzString(i.tz)
    ELSE DateString(i)

GregYears == (MinYear..MaxYear) \cup {1900, 2000, 2100, 2400}

GregInputs ==
    [form : {"gregorian"}, y : GregYears, m : 0..13, d : 0..32,
     compact : BOOLEAN]

WeekYears == ((MinYear - 9)..(MaxYear + 16)) \cup {1899, 1900, 1901, 2099, 2100, 2101}

WeekInputs == [form : {"week"}, y : WeekYears, w : 0..54, d : 0..8]

TzSuffixes ==
    {NoTz}
    \cup [kind : {"Z"}, neg : {FALSE}, h : {0}, m : {0}, colon : {FALSE},
          space : BOOLEAN]
    \cup [kind : {"num"}, neg : BOOLEAN, h : {2, 5}, m : {0, 30},
          colon : BOOLEAN, space : BOOLEAN]

TimeInputs ==
    [form : {"datetime"}, y : {2020}, m : {2}, d : {29}, compact : {FALSE},
     sep : {"T", " "}, hh : {0, 10, 12, 23, 24, 25}, mm : {0, 59, 60},
     ss : {0, 59, 60, 75}, colon : BOOLEAN, tz : TzSuffixes]

HostOffsets == {-18000, 0, 7200}

\* crm_time_new(NULL): the host's clock and offset through ha_set_tm_time
LocalNow ==
    LET h_offset == CDiv(gmtoff, 3600)
        m_offset == CDiv(gmtoff - (3600 * h_offset), 60)
    IN  [calloc_crm_time EXCEPT !.years = 2019, !.days = 365, !.seconds = 86340,
                                !.offset = (60 * 60 * h_offset) + (60 * m_offset)]

InitParse(inputs, offsets) ==
    /\ inp \in inputs
    /\ date_str = InputString(inp)
    /\ gmtoff \in offsets
    /\ now = LocalNow
    /\ res = NULL
    /\ oob = 0
    /\ op = "new"
    /\ dt = NULL /\ pre = NULL /\ arg = 0 /\ steps = 0
    /\ NoCalls

\* data_set->now = crm_time_new(use_date)
NewFromString ==
    /\ op = "new"
    /\ res' = crm_time_new(date_str)
    /\ op' = "crm_time_new"
    /\ UNCHANGED <<inp, date_str, gmtoff, now, oob, arith_vars, call_vars>>

NextParse == NewFromString

InitParseGregorian == InitParse(GregInputs, {3600})

SpecParseGregorian == InitParseGregorian /\ [][NextParse]_vars

InitParseWeek == InitParse(WeekInputs, {3600})

SpecParseWeek == InitParseWeek /\ [][NextParse]_vars

InitParseTime == InitParse(TimeInputs, HostOffsets)

SpecParseTime == InitParseTime /\ [][NextParse]_vars

(***************************************************************************)
(* C6: parsing a Gregorian date (YYYY-MM-DD or YYYYMMDD) succeeds only     *)
(* when month is in [1, 12] and day is in [1, days_in_month(month, year)], *)
(* otherwise the parser returns null; Feb 29 parses for 2000 and 2400 and  *)
(* fails for 1900 and 2100.                                                *)
(***************************************************************************)
Cex_C6 ==
    (op = "crm_time_new" /\ inp.form = "gregorian" /\ res # NULL) =>
        /\ inp.m \in 1..12
        /\ inp.d \in 1..crm_time_days_in_month(inp.m, inp.y)

(***************************************************************************)
(* C7: parsing an ISO week date YYYY-Www-D succeeds only when week is in   *)
(* [1, weeks_in_year(year)] and D is in [1, 7]; otherwise the parser       *)
(* returns null.                                                           *)
(***************************************************************************)
Cex_C7 ==
    (op = "crm_time_new" /\ inp.form = "week" /\ res # NULL) =>
        /\ inp.w \in 1..crm_time_weeks_in_year(inp.y)
        /\ inp.d \in 1..7

(***************************************************************************)
(* C8: for every year y, week w in [1, weeks_in_year(y)] and weekday d in  *)
(* [1, 7], parsing y-Ww-d yields the valid instant that is the d-th day    *)
(* (Monday = 1) of ISO week w of ISO year y, also when that day lies in    *)
(* the neighbouring calendar year: 2009-W53-7 is 2010-01-03 and 2009-W01-1 *)
(* is 2008-12-29.  Week 1 is the week that holds January 4; days are       *)
(* counted from Monday 0001-01-01.                                         *)
(***************************************************************************)
AbsDay(t) == DaysBeforeYear(t.years) + (t.days - 1)

IsoWeekDay(y, w, d) ==
    LET jan4 == DaysBeforeYear(y) + 3
        monday1 == jan4 - (jan4 % 7)
    IN  monday1 + (7 * (w - 1)) + (d - 1)

TimeInRange(i) == i.hh < 24 /\ i.mm < 60 /\ i.ss < 60

SuffixOffset(tz) ==
    IF tz.kind = "Z" THEN 0
    ELSE (IF tz.neg THEN -1 ELSE 1) * ((3600 * tz.h) + (60 * tz.m))

Cex_C9 ==
    (/\ op = "crm_time_new" /\ inp.form = "datetime"
     /\ inp.tz.kind # "none" /\ TimeInRange(inp)) =>
        /\ res # NULL
        /\ res.offset = SuffixOffset(inp.tz)
        /\ crm_time_compare(res, Instant(inp.y, 60, ((3600 * inp.hh) + (60 * inp.mm) + inp.ss)
                                                    - SuffixOffset(inp.tz), 0)) = 0

(***************************************************************************)
(* C10: when the time-of-day part of a date string has a field out of      *)
(* range (hour >= 24, minute >= 60 or second >= 60), the parser returns    *)
(* null rather than an instant.                                            *)
(***************************************************************************)
Cex_C10 ==
    (op = "crm_time_new" /\ inp.form = "datetime" /\ ~TimeInRange(inp)) =>
        res = NULL

(***************************************************************************)
(* The Gregorian calendar in closed form, for the claims about months.     *)
(***************************************************************************)
RefLeap(y) == DaysBeforeYear(y + 1) - DaysBeforeYear(y) = 366

RefDaysInMonth(m, y) ==
    IF m = 2 THEN (IF RefLeap(y) THEN 29 ELSE 28)
    ELSE IF m \in {4, 6, 9, 11} THEN 30 ELSE 31

\* the ordinal day of y-m-d
RefOrdinal(y, m, d) ==
    ((275 * m) \div 9) - ((IF RefLeap(y) THEN 1 ELSE 2) * ((m + 9) \div 12))
        + d - 30

\* <<month, day of month>> of ordinal day ord of year y
RefGregorian(y, ord) ==
    CHOOSE md \in (1..12) \X (1..31) :
        md[2] <= RefDaysInMonth(md[1], y) /\ RefOrdinal(y, md[1], md[2]) = ord

Min(x, y) == IF x < y THEN x ELSE y

\* <<year, month, day>> n months after y-m-d, the day clamped once
RefAddMonths(y, m, d, n) ==
    LET k == (m - 1) + n
        y2 == y + (k \div 12)
        m2 == (k % 12) + 1
    IN  <<y2, m2, Min(d, RefDaysInMonth(m2, y2))>>

(***************************************************************************)
(* SpecAddOrder: a caller adds a duration of years, months, days and       *)
(* seconds to an instant.                                                  *)
(***************************************************************************)
OrderInstants ==
    {t \in {Instant(y, d, s, o) : y \in {MaxYear, 2020},
                                  d \in {30, 31, 60, 243, 244, 365, 366},
                                  s \in {0, 86399}, o \in {0, 19800}} :
        IsValidInstant(t)}

OrderDurations ==
    {Duration(y, m, d, s) : y \in {0, 1}, m \in {0, 1, 2, 11, 13},
                            d \in {0, 1, 10}, s \in {0, 9000}}

InitAddOrder ==
    /\ a \in OrderInstants
    /\ dur \in OrderDurations
    /\ oob \in OobInts
    /\ op = "new"
    /\ b = NULL /\ c = NULL /\ sum = NULL /\ sum_b = NULL /\ back = NULL
    /\ rc = NULL
    /\ dt = NULL /\ pre = NULL /\ arg = 0 /\ steps = 0
    /\ NoParse

NextAddOrder == Add

SpecAddOrder == InitAddOrder /\ [][NextAddOrder]_vars

(***************************************************************************)
(* C11: add(instant, duration) applies the components of the duration in   *)
(* the order years, months, days, seconds, the day of month being clamped  *)
(* once after all months have been stepped: the sum is the day that is     *)
(* dur.days days after the clamped date dur.months months after the date   *)
(* the instant's ordinal day has in year years + dur.years, plus the       *)
(* seconds; P1Y2M10DT2H30M added to 2020-01-31T00:00:00Z is                *)
(* 2021-04-10T02:30:00Z.  Stated where that ordinal day exists in the year *)
(* reached.                                                                *)
(***************************************************************************)
RefSum(v, d) ==
    LET y1 == v.years + d.years
        g == RefGregorian(y1, v.days)
        ymd == RefAddMonths(y1, g[1], g[2], d.months)
        day == DaysBeforeYear(ymd[1]) + RefOrdinal(ymd[1], ymd[2], ymd[3]) - 1
                   + d.days
        secs == v.seconds + d.seconds
    IN  <<day + (secs \div 86400), secs % 86400>>

Thm_C11 ==
    (op = "add" /\ a.days <= DaysBeforeYear(a.years + dur.years + 1)
                                 - DaysBeforeYear(a.years + dur.years)) =>
        /\ IsValidInstant(sum)
        /\ <<AbsDay(sum), sum.seconds>> = RefSum(a, dur)
        /\ sum.offset = a.offset
        /\ (/\ a.years = 2020 /\ a.days = 31 /\ a.seconds = 0
            /\ dur = Duration(1, 2, 10, 9000)) =>
               (sum.years = 2021 /\ sum.days = 100 /\ sum.seconds = 9000)

\* the example of the claim: 2021-04-10 is ordinal day 100
Wit_C11 ==
    /\ op = "add"
    /\ a = Instant(2020, 31, 0, 0) /\ dur = Duration(1, 2, 10, 9000)
    /\ sum = Instant(2021, 100, 9000, 0)

(***************************************************************************)
(* C12: for every valid instant with Gregorian date (y, m, d) and every    *)
(* signed n, add_months(v, n) is a valid instant in the month n months     *)
(* after (y, m), its day of month min(d, days_in_month(that month)), its   *)
(* time of day and offset unchanged; January 31 plus one month is February *)
(* 28 in a non-leap year and February 29 in a leap year.                   *)
(***************************************************************************)
Thm_C12 ==
    (op = "add_months" /\ IsValidInstant(pre)) =>
        LET g == RefGregorian(pre.years, pre.days)
            ymd == RefAddMonths(pre.years, g[1], g[2], arg)
        IN  /\ IsValidInstant(dt)
            /\ dt.years = ymd[1]
            /\ RefGregorian(dt.years, dt.days) = <<ymd[2], ymd[3]>>
            /\ dt.seconds = pre.seconds /\ dt.offset = pre.offset
            /\ (pre.days = 31 /\ arg = 1) =>
                   dt.days = (IF RefLeap(pre.years) THEN 60 ELSE 59)

\* January 31 of a leap year and one month: February 29, ordinal day 60
Wit_C12 ==
    /\ op = "add_months" /\ arg = 1
    /\ IsValidInstant(pre) /\ pre.days = 31 /\ crm_time_leapyear(pre.years)
    /\ dt.years = pre.years /\ dt.days = 60

(***************************************************************************)
(* SpecParseDuration: a caller hands a duration string to                  *)
(* crm_time_parse_duration.  A well-formed string is written from the      *)
(* counts of inp.                                                         *)
(***************************************************************************)
\* a count is <<n>>, or <<>> when the unit is left out
UnitString(u, ch) == IF u = <<>> THEN <<>> ELSE DecStr(u[1]) \o <<ch>>

UnitCount(u) == IF u = <<>> THEN 0 ELSE u[1]

DurationString(i) ==
    <<"P">> \o UnitString(i.y, "Y") \o UnitString(i.mo, "M")
        \o UnitString(i.w, "W") \o UnitString(i.d, "D")
        \o (IF i.h = <<>> /\ i.mi = <<>> /\ i.s = <<>> THEN <<>>
            ELSE <<"T">> \o UnitString(i.h, "H") \o UnitString(i.mi, "M")
                     \o UnitString(i.s, "S"))

DurationInputs ==
    [form : {"duration"}, y : {<<>>, <<1>>, <<10>>}, mo : {<<>>, <<2>>, <<13>>},
     w : {<<>>, <<3>>}, d : {<<>>, <<0>>, <<40>>}, h : {<<>>, <<5>>, <<25>>},
     mi : {<<>>, <<6>>, <<90>>}, s : {<<>>, <<7>>, <<3600>>}]

\* strings that are not P followed by integer + unit-letter tokens
MalformedDurationStrings ==
    {<<"1", "Y">>, <<"X", "1", "Y">>, <<"p", "1", "D">>,
     <<"P", "1", "X">>, <<"P", "1", "Y", "2", "Q">>, <<"P", "T", "1", "X">>,
     <<"P", "1">>, <<"P", "1", "Y", "2">>, <<"P", "T", "5">>,
     <<"P", "Y">>, <<"P", "1", "Y", "M">>, <<"P", "T", "H">>, <<"P", "X">>,
     <<"P", "1", "D", "/">>, <<"P", "1", "D", "x">>}

MalformedDurationInputs ==
    {[form |-> "malformed", str |-> s] : s \in MalformedDurationStrings}

InitParseDuration ==
    /\ inp \in DurationInputs \cup MalformedDurationInputs
    /\ date_str = (IF inp.form = "duration" THEN DurationString(inp) ELSE inp.str)
    /\ gmtoff = 0
    /\ now = LocalNow
    /\ res = NULL
    /\ oob \in OobInts
    /\ op = "new"
    /\ dt = NULL /\ pre = NULL /\ arg = 0 /\ steps = 0
    /\ NoCalls

\* period->diff = crm_time_parse_duration(period_str)
ParseDuration ==
    /\ op = "new"
    /\ res' = crm_time_parse_duration(date_str, 1)
    /\ op' = "crm_time_parse_duration"
    /\ UNCHANGED <<inp, date_str, gmtoff, now, oob, arith_vars, call_vars>>

NextParseDuration == ParseDuration

SpecParseDuration == InitParseDuration /\ [][NextParseDuration]_vars

(***************************************************************************)
(* SpecParsePeriod: a caller hands a period string, one or two parts       *)
(* separated by '/', to crm_time_parse_period.                             *)
(***************************************************************************)
Part(kind, str) == [kind |-> kind, str |-> str]

\* the parts: dates and durations, well-formed and not
PeriodParts ==
    {Part("date", <<"2", "0", "2", "0", "-", "0", "1", "-", "3", "1">>),
     Part("date", <<"2", "0", "0", "1", "-", "0", "6", "0">>),
     Part("date", <<"2", "0", "2", "0", "-", "0", "2", "-", "2", "9", "T",
                    "1", "2", ":", "0", "0", ":", "0", "0", "Z">>),
     Part("baddate", <<"2", "0", "2", "0", "-", "1", "3", "-", "0", "1">>),
     Part("baddate", <<"x">>),
     Part("baddate", <<>>),
     Part("duration", <<"P", "1", "M">>),
     Part("duration", <<"P", "1", "D">>),
     Part("duration", <<"P", "1", "Y", "T", "1", "H">>),
     Part("badduration", <<"P", "X">>),
     Part("badduration", <<"P", "1">>),
     Part("badduration", <<"P", "1", "Q">>)}

NoPart == Part("none", <<>>)

PeriodInputs ==
    [form : {"period"}, first : PeriodParts, second : PeriodParts \cup {NoPart}]

PeriodString(i) ==
    IF i.second = NoPart THEN i.first.str
    ELSE i.first.str \o <<"/">> \o i.second.str

InitParsePeriod ==
    /\ inp \in PeriodInputs
    /\ date_str = PeriodString(inp)
    /\ gmtoff \in HostOffsets
    /\ now = LocalNow
    /\ res = NULL
    /\ oob \in OobInts
    /\ op = "new"
    /\ dt = NULL /\ pre = NULL /\ arg = 0 /\ steps = 0
    /\ NoCalls

\* crm_time_period_t *p = crm_time_parse_period(str)
ParsePeriod ==
    /\ op = "new"
    /\ res' = crm_time_parse_period(date_str)
    /\ op' = "crm_time_parse_period"
    /\ UNCHANGED <<inp, date_str, gmtoff, now, oob, arith_vars, call_vars>>

NextParsePeriod == ParsePeriod

SpecParsePeriod == InitParsePeriod /\ [][NextParsePeriod]_vars

(***************************************************************************)
(* C13: parse_period returns null when fewer than two of {start, end,      *)
(* duration} can be obtained from the string (a bare duration counting as  *)
(* start = now plus the duration); whenever it returns a period both start *)
(* and end are non-null, with end = add(start, diff) when only a start and *)
(* a duration were given and start = subtract(end, diff) when only a       *)
(* duration and an end were given.                                         *)
(***************************************************************************)
\* how many of start, end and duration the parts of an input supply
GivenStart(i) ==
    i.first.kind = "date" \/ (i.first.kind = "duration" /\ i.second = NoPart)

GivenEnd(i) == i.second.kind = "date"

GivenDuration(i) == i.first.kind = "duration" \/ i.second.kind = "duration"

GivenCount(i) ==
    (IF GivenStart(i) THEN 1 ELSE 0) + (IF GivenEnd(i) THEN 1 ELSE 0)
        + (IF GivenDuration(i) THEN 1 ELSE 0)

Cex_C13 ==
    (op = "crm_time_parse_period") =>
        /\ GivenCount(inp) < 2 => res = NULL
        /\ res # NULL =>
               /\ res.start # NULL /\ res.end # NULL
               /\ (GivenStart(inp) /\ GivenDuration(inp)) =>
                      res.end = crm_time_add(res.start, res.diff)
               /\ (GivenEnd(inp) /\ GivenDuration(inp)) =>
                      res.start = crm_time_subtract(res.end, res.diff)

(***************************************************************************)
(* C14: parse_duration of P[nY][nM][nW][nD][T[nH][nM][nS]] yields a        *)
(* duration with years = the Y count, months = the M count given before T, *)
(* days = 7 * (W count) + (D count), seconds = 3600 * (H count) + 60 * (M  *)
(* count given after T) + (S count), a missing unit counting as 0, and     *)
(* offset 0.                                                               *)
(***************************************************************************)
Thm_C14 ==
    (op = "crm_time_parse_duration" /\ inp.form = "duration") =>
        /\ res # NULL
        /\ res.years = UnitCount(inp.y)
        /\ res.months = UnitCount(inp.mo)
        /\ res.days = (7 * UnitCount(inp.w)) + UnitCount(inp.d)
        /\ res.seconds = (3600 * UnitCount(inp.h)) + (60 * UnitCount(inp.mi))
                             + UnitCount(inp.s)
        /\ res.offset = 0

\* P1Y2M3W40DT5H6M7S: months before T and minutes after it
Wit_C14 ==
    /\ op = "crm_time_parse_duration"
    /\ date_str = <<"P", "1", "Y", "2", "M", "3", "W", "4", "0", "D", "T",
                    "5", "H", "6", "M", "7", "S">>
    /\ res # NULL /\ res.years = 1 /\ res.months = 2 /\ res.days = 61
    /\ res.seconds = 18367

(***************************************************************************)
(* C15: parse_duration returns null on every malformed input: a string     *)
(* that does not begin with P, a token whose unit letter is not one of Y,  *)
(* M, W, D, H, S, an integer that is not followed by a unit letter, or a   *)
(* unit position that has no integer.                                      *)
(***************************************************************************)
Cex_C15 ==
    (op = "crm_time_parse_duration" /\ inp.form = "malformed") => res = NULL

(***************************************************************************)
(* SpecSeconds: a caller asks for the seconds of an instant, one it has or *)
(* the one it gets from the string "epoch".                                *)
(***************************************************************************)
SecondsYears == {1, 1969, 1970, 1971, MaxYear - 1, MaxYear}

SecondsInstants ==
    {t \in {Instant(y, d, s, o) : y \in SecondsYears, d \in {1, 60, 365, 366},
                                  s \in {0, 43200, 86399},
                                  o \in {-86399, -7200, 0, 19800, 86399}} :
        IsValidInstant(t)}

InitSeconds ==
    /\ a \in SecondsInstants \cup {NULL}
    /\ date_str = EPOCH_STR
    /\ inp = NULL /\ gmtoff = 0 /\ res = NULL /\ now = NULL
    /\ oob = 0
    /\ op = "new"
    /\ b = NULL /\ c = NULL /\ dur = NULL /\ sum = NULL /\ sum_b = NULL
    /\ back = NULL /\ rc = NULL
    /\ dt = NULL /\ pre = NULL /\ arg = 0 /\ steps = 0

\* crm_time_new("epoch")
NewEpoch ==
    /\ op = "new" /\ a = NULL
    /\ res' = crm_time_new(date_str)
    /\ a' = res'
    /\ op' = "crm_time_new"
    /\ UNCHANGED <<b, c, dur, sum, sum_b, back, rc, inp, date_str, gmtoff, now,
                   oob, arith_vars>>

GetSeconds ==
    /\ op \in {"new", "crm_time_new"} /\ a # NULL
    /\ rc' = [seconds |-> crm_time_get_seconds(a),
              since_epoch |-> crm_time_get_seconds_since_epoch(a)]
    /\ op' = "get_seconds"
    /\ UNCHANGED <<a, b, c, dur, sum, sum_b, back, parse_vars, oob, arith_vars>>

NextSeconds == NewEpoch \/ GetSeconds

SpecSeconds == InitSeconds /\ [][NextSeconds]_vars

(***************************************************************************)
(* C16: for every valid instant, get_seconds is 86400 * (the sum of        *)
(* year_days(i) for i in [1, years - 1]) + 86400 * (days - 1) + seconds of *)
(* the instant normalized to UTC, and get_seconds_since_epoch is that      *)
(* minus 62135596800; the instant parsed from "epoch" is {years 1970, days *)
(* 1, seconds 0, offset 0} and its get_seconds_since_epoch is 0.  The sum  *)
(* of the year lengths is the closed form DaysBeforeYear; for an instant   *)
(* of year 1 that UTC puts in year 0 the sum is empty and days is counted  *)
(* in the 366 days of year 0.                                              *)
(***************************************************************************)
RefSeconds(t) ==
    LET m == UtcMoment(t)
    IN  IF m[1] >= 0 THEN m ELSE <<m[1] + 366, m[2]>>

Thm_C16 ==
    (op = "get_seconds") =>
        /\ rc.seconds = RefSeconds(a)
        /\ rc.since_epoch = <<rc.seconds[1] - 719162, rc.seconds[2]>>
        /\ res # NULL =>
               (a = Instant(1970, 1, 0, 0) /\ rc.since_epoch = <<0, 0>>)

\* the instant of "epoch" is second 0 since the epoch
Wit_C16 ==
    /\ op = "get_seconds" /\ res # NULL /\ a = res
    /\ a.years = 1970 /\ a.days = 1 /\ a.seconds = 0 /\ a.offset = 0
    /\ rc.seconds = <<719162, 0>> /\ rc.since_epoch = <<0, 0>>

(***************************************************************************)
(* SpecNull: a caller hands two values, either of which may be null, to    *)
(* add, subtract, calculate_duration, check and compare.                   *)
(***************************************************************************)
InitNull ==
    /\ a \in CmpInstants \cup {NULL}
    /\ b \in CmpInstants \cup SecondDurations \cup {NULL}
    /\ oob = 0
    /\ op = "new"
    /\ c = NULL /\ dur = NULL /\ sum = NULL /\ sum_b = NULL /\ back = NULL
    /\ rc = NULL
    /\ dt = NULL /\ pre = NULL /\ arg = 0 /\ steps = 0
    /\ NoParse

CallWithNull ==
    /\ op = "new"
    /\ sum' = crm_time_add(a, b)
    /\ back' = crm_time_subtract(a, b)
    /\ dur' = crm_time_calculate_duration(a, b)
    /\ rc' = [check |-> crm_time_check(a), cmp |-> crm_time_compare(a, b)]
    /\ op' = "null_calls"
    /\ UNCHANGED <<a, b, c, sum_b, arith_vars, parse_vars, oob>>

NextNull == CallWithNull

SpecNull == InitNull /\ [][NextNull]_vars

(***************************************************************************)
(* C17: null inputs never fault and never yield a value: add, subtract and *)
(* calculate_duration return null when either argument is null,            *)
(* check(null) is false, and compare orders null below every non-null      *)
(* value and equal to null: compare(null, null) = 0, compare(null, x) = -1 *)
(* and compare(x, null) = +1.                                              *)
(***************************************************************************)
Thm_C17 ==
    (op = "null_calls") =>
        /\ (a = NULL \/ b = NULL) =>
               (sum = NULL /\ back = NULL /\ dur = NULL)
        /\ a = NULL => rc.check = FALSE
        /\ (a = NULL /\ b = NULL) => rc.cmp = 0
        /\ (a = NULL /\ b # NULL) => rc.cmp = -1
        /\ (a # NULL /\ b = NULL) => rc.cmp = 1

\* null compared with an instant
Wit_C17 ==
    /\ op = "null_calls" /\ a = NULL /\ b # NULL /\ b.years = MaxYear
    /\ rc.cmp = -1 /\ rc.check = FALSE
    /\ sum = NULL /\ back = NULL /\ dur = NULL

(***************************************************************************)
(* Formatting an instant and parsing the text again.                       *)
(***************************************************************************)
GregorianFlags ==
    {"crm_time_log_date", "crm_time_log_timeofday", "crm_time_log_with_timezone"}

FlagSets ==
    {GregorianFlags,
     GregorianFlags \cup {"crm_time_ordinal"},
     GregorianFlags \cup {"crm_time_weeks"},
     {"crm_time_log_date", "crm_time_weeks"},
     {"crm_time_log_date", "crm_time_log_timeofday"},
     {"crm_time_log_date"}}

\* years whose every day is formatted, and years formatted near their ends
FullYears == (MinYear..MaxYear) \cup {2005}
EdgeYears == WeekYears \cup {1, 999, 10000}
EdgeDays == (1..7) \cup (358..366)

RoundTripOffsets ==
    {-86399, -86340, -19800, -1800, -59, 0, 30, 60, 19800, 86340, 86399}

RoundTripInstants ==
    {t \in {Instant(y, d, 0, 0) : y \in FullYears, d \in 1..366}
           \cup {Instant(y, d, 0, 0) : y \in EdgeYears, d \in EdgeDays}
           \cup {Instant(y, d, s, o) : y \in {MaxYear - 1, MaxYear},
                                       d \in {1, 60, 365, 366},
                                       s \in {0, 3661, 86399},
                                       o \in RoundTripOffsets} :
        IsValidInstant(t)}

InitRoundTrip ==
    /\ a \in RoundTripInstants
    /\ gmtoff \in HostOffsets
    /\ now = LocalNow
    /\ date_str = <<>>
    /\ inp = NULL /\ res = NULL
    /\ oob = 0
    /\ op = "new"
    /\ b = NULL /\ c = NULL /\ dur = NULL /\ sum = NULL /\ sum_b = NULL
    /\ back = NULL /\ rc = NULL
    /\ dt = NULL /\ pre = NULL /\ arg = {} /\ steps = 0

\* crm_time_as_string(a, flags)
AsString ==
    /\ op = "new"
    /\ \E flags \in FlagSets :
          /\ arg' = flags
          /\ date_str' = crm_time_as_string(a, flags)
    /\ op' = "crm_time_as_string"
    /\ UNCHANGED <<dt, pre, steps, call_vars, inp, gmtoff, res, now, oob>>

\* crm_time_new of the text crm_time_as_string gave
NewFromText ==
    /\ op = "crm_time_as_string"
    /\ res' = crm_time_new(date_str)
    /\ op' = "crm_time_new"
    /\ UNCHANGED <<arith_vars, call_vars, inp, date_str, gmtoff, now, oob>>

\* crm_time_get_gregorian(a, &y, &m, &d), then get_ordinal_days(y, m, d)
GetGregorian ==
    /\ op = "new"
    /\ rc' = [ymd |-> crm_time_get_gregorian(a)]
    /\ steps' = get_ordinal_days(rc'.ymd[1], rc'.ymd[2], rc'.ymd[3])
    /\ op' = "crm_time_get_gregorian"
    /\ UNCHANGED <<dt, pre, arg, a, b, c, dur, sum, sum_b, back, parse_vars, oob>>

\* crm_time_get_isoweek(a, &y, &w, &d)
GetIsoweek ==
    /\ op = "new"
    /\ rc' = crm_time_get_isoweek(a)
    /\ op' = "crm_time_get_isoweek"
    /\ UNCHANGED <<arith_vars, a, b, c, dur, sum, sum_b, back, parse_vars, oob>>

NextRoundTrip == AsString \/ NewFromText \/ GetGregorian \/ GetIsoweek

SpecRoundTrip == InitRoundTrip /\ [][NextRoundTrip]_vars

(***************************************************************************)
(* C18, as stated: for every valid instant v, with any offset between      *)
(* -86400 and 86400, parsing the text that crm_time_as_string gives for    *)
(* the flags date, timeofday and with_timezone yields an instant equal to  *)
(* v in years, days, seconds and offset.                                   *)
(***************************************************************************)
Cex_C18 ==
    (op = "crm_time_new" /\ arg = GregorianFlags
         /\ IsValidInstant(a) /\ a.years >= 1
         /\ a.offset > -86400 /\ a.offset < 86400)
        => SameInstant(res, a)

(***************************************************************************)
(* C18, amended: the same for every valid instant whose offset is a whole  *)
(* number of minutes; the text carries the offset as hours and minutes.    *)
(***************************************************************************)
Thm_C18 ==
    (op = "crm_time_new" /\ arg = GregorianFlags
         /\ IsValidInstant(a) /\ a.years >= 1
         /\ a.offset > -86400 /\ a.offset < 86400
         /\ CMod(a.offset, 60) = 0)
        => SameInstant(res, a)

\* 2000-12-31 23:59:59 -05:30 on a host two hours east of UTC
Wit_C18 ==
    /\ op = "crm_time_new" /\ arg = GregorianFlags
    /\ a = Instant(2000, 366, 86399, -19800)
    /\ gmtoff = 7200
    /\ date_str = <<"2", "0", "0", "0", "-", "1", "2", "-", "3", "1", " ",
                    "2", "3", ":", "5", "9", ":", "5", "9", " ",
                    "-", "0", "5", ":", "3", "0">>
    /\ SameInstant(res, a)

(***************************************************************************)
(* C19: for every valid instant v, crm_time_get_gregorian gives (y, m, d)  *)
(* with y = v.years, m in 1..12 and d in 1..(the days of month m of year   *)
(* y), and get_ordinal_days(y, m, d), the conversion of the Gregorian      *)
(* parser, gives v.days again; ordinal 2005-020 is 2005-01-20.             *)
(***************************************************************************)
Thm_C19 ==
    (op = "crm_time_get_gregorian" /\ IsValidInstant(a) /\ a.years >= 1)
        => /\ rc.ymd[1] = a.years
           /\ rc.ymd[2] \in 1..12
           /\ rc.ymd[3] \in 1..RefDaysInMonth(rc.ymd[2], rc.ymd[1])
           /\ steps = a.days
           /\ (a.years = 2005 /\ a.days = 20 => rc.ymd = <<2005, 1, 20>>)

\* the last day of February of a leap year
Wit_C19 ==
    /\ op = "crm_time_get_gregorian"
    /\ a = Instant(MaxYear - (MaxYear % 4), 60, 0, 0)
    /\ rc.ymd = <<a.years, 2, 29>>
    /\ steps = 60

(***************************************************************************)
(* C20: for every valid instant v, crm_time_get_isoweek gives (y, w, d)    *)
(* with w in 1..crm_time_weeks_in_year(y) and d in 1..7, and parsing the   *)
(* week date y-Ww-d yields an instant with the years and days of v, also   *)
(* for the days at the start or the end of a calendar year that belong to  *)
(* the ISO year before or after.  The week date is the one that           *)
(* crm_time_as_string writes for v itself: without the flag with_timezone  *)
(* an instant with an offset is written as its UTC copy, a different v.    *)
(***************************************************************************)
Thm_C20 ==
    /\ (op = "crm_time_get_isoweek" /\ IsValidInstant(a) /\ a.years >= 1)
           => /\ rc.ok
              /\ rc.ywd[2] \in 1..crm_time_weeks_in_year(rc.ywd[1])
              /\ rc.ywd[3] \in 1..7
    /\ (op = "crm_time_new" /\ "crm_time_weeks" \in arg
            /\ ("crm_time_log_with_timezone" \in arg \/ a.offset = 0)
            /\ IsValidInstant(a) /\ a.years >= 1)
           => /\ res # NULL
              /\ res.years = a.years
              /\ res.days = a.days

\* Sunday 3 January 2010 is 2009-W53-7
Wit_C20 ==
    /\ op = "crm_time_new"
    /\ arg = {"crm_time_log_date", "crm_time_weeks"}
    /\ a = Instant(2010, 3, 0, 0)
    /\ date_str = <<"2", "0", "0", "9", "-", "W", "5", "3", "-", "7">>
    /\ res # NULL /\ res.years = 2010 /\ res.days = 3

(***************************************************************************)
(* C21: an instant parsed from a string without a timezone suffix carries  *)
(* the offset of the host, in whole minutes, for every accepted form of    *)
(* the date, with or without a time of day.                                *)
(***************************************************************************)
NoSuffix(i) == i.form # "datetime" \/ i.tz = NoTz

HostMinutes == 60 * CDiv(gmtoff, 60)

Cex_C21 ==
    (/\ op = "crm_time_new" /\ res # NULL /\ NoSuffix(inp)
     /\ inp.form = "datetime" => TimeInRange(inp)) =>
        res.offset = HostMinutes

(***************************************************************************)
(* C22: for every valid instant v and signed n, add_days(v, n) is the      *)
(* instant exactly n calendar days later (earlier for n < 0) with the same *)
(* time of day, and add_seconds(v, n) is the instant exactly n seconds     *)
(* later: crm_time_get_seconds changes by 86400 * n and by n, across year  *)
(* boundaries and leap years in both directions.  A number of seconds is   *)
(* written <<q, r>> for q * 86400 + r.                                     *)
(***************************************************************************)
\* SpecShift: a caller shifts one instant by days and by seconds
NextShift == AddDays \/ AddSeconds

ShiftInstants == {t \in ArithInstants : t.years >= MinYear /\ t.offset # 0}

InitShift ==
    /\ dt \in ShiftInstants
    /\ pre = dt
    /\ op = "new"
    /\ arg = 0
    /\ steps = 0
    /\ oob = 0
    /\ NoCalls
    /\ NoParse

SpecShift == InitShift /\ [][NextShift]_vars

ShiftOf(name, n) == IF name = "add_days" THEN ll_seconds(n, 0) ELSE ll_seconds(0, n)

Thm_C22 ==
    (op \in {"add_days", "add_seconds"} /\ IsValidInstant(pre)) =>
        /\ IsValidInstant(dt)
        /\ ll_minus(crm_time_get_seconds(dt), crm_time_get_seconds(pre))
               = ShiftOf(op, arg)
        /\ ll_minus(UtcMoment(dt), UtcMoment(pre)) = ShiftOf(op, arg)
        /\ op = "add_days" => dt.seconds = pre.seconds
        /\ dt.offset = pre.offset

\* two years of 366 days back from the last day of a leap year: a leap year
\* and a year of 365 days are borrowed
Wit_C22 ==
    /\ op = "add_days" /\ arg = -(366 * MaxYearSpan)
    /\ IsValidInstant(pre) /\ pre.days = 366
    /\ IsValidInstant(dt) /\ dt.years = pre.years - 2
    /\ UtcMoment(dt)[1] = UtcMoment(pre)[1] + arg

(***************************************************************************)
(* C23: in a period string the first component is parsed from the portion  *)
(* before '/' only: the start instant of <start>/<end> or                  *)
(* <start>/<duration> is the instant that portion gives by itself, so a    *)
(* start without a time of day has seconds 0 whatever time or T section    *)
(* the second component has.                                               *)
(***************************************************************************)
Cex_C23 ==
    (/\ op = "crm_time_parse_period" /\ res # NULL
     /\ inp.first.kind = "date" /\ inp.second # NoPart) =>
        /\ res.start = crm_time_new(inp.first.str)
        /\ (\A p \in 1..Len(inp.first.str) : inp.first.str[p] # "T") =>
               res.start.seconds = 0

(***************************************************************************)
(* C24: adding a duration that has only a years component n to a valid     *)
(* instant v yields a valid instant in year v.years + n with the month and *)
(* the day of month of v, except that February 29 becomes February 28 or   *)
(* March 1 when the target year is not a leap year; subtract with the same *)
(* duration yields the corresponding date in year v.years - n.             *)
(***************************************************************************)
OnlyYears(d) == d.years # 0 /\ d.months = 0 /\ d.days = 0 /\ d.seconds = 0

\* w is the date of v moved by n years
SameDateOfYear(v, w, n) ==
    /\ IsValidInstant(w)
    /\ w.years = v.years + n
    /\ \/ RefGregorian(w.years, w.days) = RefGregorian(v.years, v.days)
       \/ /\ RefGregorian(v.years, v.days) = <<2, 29>>
          /\ ~RefLeap(w.years)
          /\ RefGregorian(w.years, w.days) \in {<<2, 28>>, <<3, 1>>}

Cex_C24 ==
    /\ (op = "add" /\ IsValidInstant(a) /\ OnlyYears(dur)) =>
           SameDateOfYear(a, sum, dur.years)
    /\ (op = "subtract" /\ IsValidInstant(sum) /\ OnlyYears(dur)) =>
           SameDateOfYear(sum, back, -dur.years)

(***************************************************************************)
(* SpecWeekday: a caller asks for the weekday of January 1 and the number  *)
(* of ISO weeks of a year.                                                 *)
(***************************************************************************)
InitWeekday ==
    /\ arg \in 1..MaxWeekdayYear
    /\ op = "new"
    /\ oob = 0
    /\ dt = NULL /\ pre = NULL /\ steps = 0
    /\ NoCalls
    /\ NoParse

\* crm_time_january1_weekday(year), crm_time_january1_weekday(year + 1) and
\* crm_time_weeks_in_year(year)
WeeksInYear ==
    /\ op = "new"
    /\ rc' = [jan1 |-> crm_time_january1_weekday(arg),
              next |-> crm_time_january1_weekday(arg + 1),
              weeks |-> crm_time_weeks_in_year(arg)]
    /\ op' = "crm_time_weeks_in_year"
    /\ UNCHANGED <<arith_vars, a, b, c, dur, sum, sum_b, back, parse_vars, oob>>

NextWeekday == WeeksInYear

SpecWeekday == InitWeekday /\ [][NextWeekday]_vars

(***************************************************************************)
(* C25: for every year y >= 1, crm_time_january1_weekday(y) is in 1..7 and *)
(* is the weekday of January 1 under the leap-year rule: Monday (1) for    *)
(* year 1, and 1 + ((jan1(y) - 1 + year_days(y)) mod 7) for year y + 1;    *)
(* crm_time_weeks_in_year(y) is 53 exactly when January 1 or December 31   *)
(* of y is a Thursday, and 52 otherwise.                                   *)
(***************************************************************************)
\* the weekday of the day that many days after Monday 0001-01-01
RefWeekday(days) == 1 + (days % 7)

Thm_C25 ==
    (op = "crm_time_weeks_in_year") =>
        /\ rc.jan1 \in 1..7
        /\ rc.jan1 = RefWeekday(DaysBeforeYear(arg))
        /\ arg = 1 => rc.jan1 = 1
        /\ rc.next = 1 + ((rc.jan1 - 1 + year_days(arg)) % 7)
        /\ rc.weeks = (IF rc.jan1 = 4
                          \/ RefWeekday(DaysBeforeYear(arg + 1) - 1) = 4
                       THEN 53 ELSE 52)

\* 2020 is a leap year that starts on a Wednesday and ends on a Thursday
Wit_C25 ==
    /\ op = "crm_time_weeks_in_year" /\ arg = 2020
    /\ rc.jan1 = 3 /\ rc.next = 5 /\ rc.weeks = 53

(***************************************************************************)
(* SpecUtc: the library takes the UTC copy of a value, as crm_time_add,    *)
(* crm_time_compare and crm_time_as_string do with their arguments.        *)
(***************************************************************************)
UtcInstants ==
    {t \in {Instant(y, d, s, o) : y \in MinYear..MaxYear,
                                  d \in {1, 59, 60, 365, 366},
                                  s \in {0, 3600, 86399},
                                  o \in RoundTripOffsets \cup {-3600, 3600}} :
        IsValidInstant(t)}

\* durations: the values that have months, and no offset
UtcDurations ==
    {[Duration(y, m, d, s) EXCEPT !.duration = TRUE] :
        y \in {0, 1}, m \in {0, 1, 14}, d \in {0, 400}, s \in {-1, 0, 90000}}

InitUtc ==
    /\ a \in UtcInstants \cup UtcDurations
    /\ oob = 0
    /\ op = "new"
    /\ b = NULL /\ c = NULL /\ dur = NULL /\ sum = NULL /\ sum_b = NULL
    /\ back = NULL /\ rc = NULL
    /\ dt = NULL /\ pre = NULL /\ arg = 0 /\ steps = 0
    /\ NoParse

\* utc = crm_get_utc_time(a)
GetUtc ==
    /\ op = "new"
    /\ sum' = crm_get_utc_time(a)
    /\ op' = "crm_get_utc_time"
    /\ UNCHANGED <<a, b, c, dur, sum_b, back, rc, arith_vars, parse_vars, oob>>

NextUtc == GetUtc

SpecUtc == InitUtc /\ [][NextUtc]_vars

(***************************************************************************)
(* C26: the UTC copy of a valid instant with offset o is a valid instant   *)
(* with offset 0 that lies exactly o seconds earlier on the local          *)
(* calendar, the day and the year carried as needed; the UTC copy of a     *)
(* value with offset 0 has the years, months, days and seconds of the      *)
(* value.  The argument is only read.                                      *)
(***************************************************************************)
\* <<days since 0001-01-01, second of the day>> as the fields are written
LocalMoment(t) == <<DaysBeforeYear(t.years) + (t.days - 1), t.seconds>>

Thm_C26 ==
    (op = "crm_get_utc_time") =>
        /\ IsValidInstant(a) =>
               /\ IsValidInstant(sum)
               /\ sum.offset = 0
               /\ ll_minus(LocalMoment(a), LocalMoment(sum)) = ll_seconds(0, a.offset)
        /\ a.offset = 0 =>
               /\ sum.years = a.years /\ sum.months = a.months
               /\ sum.days = a.days /\ sum.seconds = a.seconds

\* an hour east of UTC at midnight of January 1: the UTC copy is in the
\* year before
Wit_C26 ==
    /\ op = "crm_get_utc_time"
    /\ IsValidInstant(a) /\ a.days = 1 /\ a.seconds = 0 /\ a.offset = 3600
    /\ sum.years = a.years - 1 /\ sum.days = year_days(sum.years)
    /\ sum.seconds = 82800 /\ sum.offset = 0

(***************************************************************************)
(* SpecSet: a caller copies one value into another with crm_time_set.      *)
(***************************************************************************)
SetValues ==
    {t \in UtcInstants : t.years = MaxYear /\ t.offset \in {0, 19800}}
        \cup {d \in UtcDurations : d.days = 0}
        \cup {NULL}

InitSet ==
    /\ a \in SetValues
    /\ b \in SetValues
    /\ oob = 0
    /\ op = "new"
    /\ c = NULL /\ dur = NULL /\ sum = NULL /\ sum_b = NULL /\ back = NULL
    /\ rc = NULL
    /\ dt = NULL /\ pre = NULL /\ arg = 0 /\ steps = 0
    /\ NoParse

\* crm_time_set(a, b): sum is *a afterwards, sum_b is *b afterwards
Set ==
    /\ op = "new"
    /\ sum' = crm_time_set(a, b)
    /\ sum_b' = b
    /\ op' = "crm_time_set"
    /\ UNCHANGED <<a, b, c, dur, back, rc, arith_vars, parse_vars, oob>>

NextSet == Set

SpecSet == InitSet /\ [][NextSet]_vars

(***************************************************************************)
(* C27: crm_time_set(target, source) with both non-null makes the target   *)
(* equal to the source in every field of the record (years, months, days,  *)
(* seconds, offset and the duration tag) and leaves the source unchanged;  *)
(* with a null target or source it changes nothing.                        *)
(***************************************************************************)
Cex_C27 ==
    (op = "crm_time_set") =>
        /\ (a # NULL /\ b # NULL) => (sum = b /\ sum_b = b)
        /\ (a = NULL \/ b = NULL) => (sum = a /\ sum_b = b)

(***************************************************************************)
(* SpecDifference: a caller takes the duration between two instants and    *)
(* adds it to the earlier one.                                             *)
(***************************************************************************)
DifferenceInstants ==
    {t \in {Instant(y, d, s, o) : y \in MinYear..MaxYear,
                                  d \in {1, 10, 60, 300, 365, 366},
                                  s \in {0, 7200, 79200},
                                  o \in {0, 7200}} :
        IsValidInstant(t)}

InitDifference ==
    /\ a \in DifferenceInstants
    /\ b \in DifferenceInstants
    /\ oob = 0
    /\ op = "new"
    /\ c = NULL /\ dur = NULL /\ sum = NULL /\ sum_b = NULL /\ back = NULL
    /\ rc = NULL
    /\ dt = NULL /\ pre = NULL /\ arg = 0 /\ steps = 0
    /\ NoParse

\* dur = crm_time_calculate_duration(a, b); sum = crm_time_add(b, dur)
Difference ==
    /\ op = "new"
    /\ dur' = crm_time_calculate_duration(a, b)
    /\ sum' = crm_time_add(b, dur')
    /\ rc' = [ab |-> crm_time_compare(a, b), back |-> crm_time_compare(sum', a)]
    /\ op' = "crm_time_calculate_duration"
    /\ UNCHANGED <<a, b, c, sum_b, back, arith_vars, parse_vars, oob>>

NextDifference == Difference

SpecDifference == InitDifference /\ [][NextDifference]_vars

(***************************************************************************)
(* C28: for valid instants a and b with compare(a, b) >= 0, the duration   *)
(* d = calculate_duration(a, b) is tagged as a duration, has offset 0 and  *)
(* days and seconds that are not negative, and add(b, d) is the moment of  *)
(* a: compare(add(b, d), a) = 0, also when a and b lie in different years. *)
(***************************************************************************)
Cex_C28 ==
    (op = "crm_time_calculate_duration" /\ rc.ab >= 0) =>
        /\ dur.duration /\ dur.offset = 0
        /\ dur.days >= 0 /\ dur.seconds >= 0
        /\ rc.back = 0

(***************************************************************************)
(* SpecFrame: a caller applies the in-place operations to an instant and   *)
(* replaces it by its sum with, or its difference from, a duration.        *)
(***************************************************************************)
FrameInstants == {t \in ArithInstants : t.years = MaxYear - 1}

FrameDurations ==
    {Duration(1, 0, 0, 0), Duration(0, 13, 0, 0), Duration(0, 1, 31, 90000)}

InitFrame ==
    /\ dt \in FrameInstants
    /\ pre = dt
    /\ dur \in FrameDurations
    /\ a = dt /\ b = dur
    /\ op = "new"
    /\ arg = 0
    /\ steps = 0
    /\ oob \in OobInts
    /\ c = NULL /\ sum = NULL /\ sum_b = NULL /\ back = NULL /\ rc = NULL
    /\ NoParse

\* dt = crm_time_add(dt, dur) or crm_time_subtract(dt, dur): a and b are the
\* two arguments after the call, which only reads them
NewValue(name, t) ==
    /\ steps < MaxOps
    /\ pre' = dt
    /\ a' = dt
    /\ b' = dur
    /\ dt' = t
    /\ op' = name
    /\ arg' = 0
    /\ steps' = steps + 1
    /\ UNCHANGED <<c, dur, sum, sum_b, back, rc, parse_vars, oob>>

AddValue == NewValue("add", crm_time_add(dt, dur))

SubtractValue == NewValue("subtract", crm_time_subtract(dt, dur))

NextFrame ==
    \/ AddSeconds
    \/ AddDays
    \/ AddMonths
    \/ AddYears
    \/ AddValue
    \/ SubtractValue

SpecFrame == InitFrame /\ [][NextFrame]_vars

(***************************************************************************)
(* C29: add_seconds, add_days, add_months and add_years change only the    *)
(* years, days and seconds of the value they are given and leave its       *)
(* offset, months and duration tag as they were; add(a, b) and             *)
(* subtract(a, b) return a new value with the offset of a and leave a and  *)
(* b as they were; so the months of an instant stay 0 under every sequence *)
(* of these operations.                                                    *)
(***************************************************************************)
Thm_C29 ==
    /\ op \in {"add_seconds", "add_days", "add_months", "add_years"} =>
           /\ dt.offset = pre.offset
           /\ dt.months = pre.months
           /\ dt.duration = pre.duration
    /\ op \in {"add", "subtract"} =>
           /\ dt.offset = pre.offset
           /\ a = pre /\ b = dur
    /\ dt.months = 0

\* the second operation subtracts a month, 31 days and 90000 seconds from
\* an instant five and a half hours east of UTC and crosses a year boundary
Wit_C29 ==
    /\ op = "subtract" /\ steps = 2
    /\ dur = Duration(0, 1, 31, 90000)
    /\ pre.offset = 19800 /\ dt.offset = 19800
    /\ dt.months = 0 /\ pre.months = 0
    /\ dt.years # pre.years

(***************************************************************************)
(* SpecTimezone: a caller asks for the timezone of a value.                *)
(***************************************************************************)
\* crm_time_get_timezone(a, &h, &m)
GetTimezone ==
    /\ op = "new"
    /\ rc' = [hm |-> crm_time_get_timezone(a)]
    /\ op' = "crm_time_get_timezone"
    /\ UNCHANGED <<a, b, c, dur, sum, sum_b, back, arith_vars, parse_vars, oob>>

NextTimezone == GetTimezone

SpecTimezone == InitUtc /\ [][NextTimezone]_vars

(***************************************************************************)
(* C30: crm_time_get_timezone(v) gives the hours and minutes of the        *)
(* magnitude of the UTC offset of v, |offset| / 3600 and                   *)
(* (|offset| mod 3600) / 60, whatever the time of day of v is.             *)
(***************************************************************************)
Magnitude(n) == IF n < 0 THEN 0 - n ELSE n

Cex_C30 ==
    (op = "crm_time_get_timezone" /\ IsValidInstant(a)) =>
        rc.hm = <<Magnitude(a.offset) \div 3600,
                  (Magnitude(a.offset) % 3600) \div 60>>

=============================================================================
